---- MODULE Spec2Model ----
(***************************************************************************)
(* Renderer backend selection and live software fallback of the FBX viewer *)
(* (Engine/src/Application.cpp, RendererBackendSelection.cpp and the       *)
(* renderer facades).                                                      *)
(*                                                                         *)
(* Strings are sequences of pieces.  Text that the code compares or parses *)
(* character by character (the ENGINE_RENDERER value, the backend names)   *)
(* is a sequence of one-character strings; a message literal is one piece. *)
(* std::string operator+ is sequence concatenation.                        *)
(***************************************************************************)
EXTENDS Integers, Sequences, FiniteSets, TLC

VARIABLES
    pc,                      \* position of Application::Run
    envRenderer,             \* ENGINE_RENDERER: [set, value]
    running_,                \* Application::running_
    frameCounter_,           \* Application::frameCounter_
    renderer_,               \* Application::renderer_ (GetName of the instance, or "None")
    statusMessage_,          \* Application::statusMessage_
    imguiInitialized_,       \* Application::imguiInitialized_
    useNativeDx12ImGui_,     \* Application::useNativeDx12ImGui_
    loadedModelValid,        \* loadedModel_.IsValid()
    sdlInitialized_,         \* Application::sdlInitialized_
    window_,                 \* Application::window_ # nullptr
    nfdInitialized_,         \* Application::nfdInitialized_
    requestedBackend,        \* CreateRenderer local: parsed override or "nullopt"
    preferNativeDx12,        \* CreateRenderer local
    backendOrder,            \* CreateRenderer local: the attempt order
    orderIndex,              \* CreateRenderer local: position of the range-for
    dx12Error,               \* CreateRenderer local
    vulkanError,             \* CreateRenderer local
    softwareError,           \* CreateRenderer local
    autoFallbackAttempted,   \* Run local
    probableBlankFrameCount, \* Run local
    live,                    \* renderer instances that own an SDL renderer / D3D12 device
    frameOpen,               \* renderer whose frame an iteration of the loop has left
                             \* begun and not ended
    attempts,                \* history: Initialize calls of CreateRenderer, in order
    lastSample,              \* history: what the blank-output probe did in the last iteration
    streak,                  \* history: length of the current run of near-clear samples
    fallbackCount,           \* history: number of live reinitializations started
    fallbackResult,          \* history: outcome of the live reinitialization
    overlayLog               \* history: the overlay and renderer calls of the latest
                             \* step of Initialize, of a teardown or of the
                             \* reinitialization, in order

\* NativeDx12Renderer::Impl: the shader-visible descriptor pool
VARIABLES
    srvHeap,                 \* Impl::srvHeap # nullptr
    srvDescriptorSize,       \* Impl::srvDescriptorSize
    srvNextFreeIndex,        \* Impl::srvNextFreeIndex (the high-water mark)
    srvFreeList,             \* Impl::srvFreeList
    holders,                 \* history: slot -> number of resources that hold it
    poolLastOp,              \* history: the last pool call and what it did
    freshAllocs,             \* history: Allocate calls since Initialize, -1 once Free was called
    freshOks                 \* history: those of them that returned true

\* A renderer driven through the Renderer interface: the frame scheduler of
\* NativeDx12Renderer::Impl and the model texture caches
VARIABLES
    rendererKind,            \* "none", "native" (NativeDx12Renderer) or "sdl" (SdlRendererBase)
    rPhase,                  \* "constructed", "failed", "idle", "frame" (after BeginFrame), "drawn", "waiting" (a call is inside WaitForSingleObject), "shutdown"
    waiting,                 \* the call that is inside WaitForSingleObject: [fn, value, model, overlay, back]
    frameIndex,              \* Impl::frameIndex
    backBufferIndex,         \* swapChain->GetCurrentBackBufferIndex()
    nextFenceValue,          \* Impl::nextFenceValue
    frameFence,              \* Impl::frames[i].fenceValue
    completedValue,          \* fence->GetCompletedValue()
    gpuQueue,                \* command queue: work submitted and not yet completed, in order
    frameNo,                 \* history: number of BeginFrame calls
    recSlots,                \* history: descriptor slots the open command list refers to
    hazard,                  \* history: a slot was freed or handed out while in-flight work referred to it
    modelTexturePaths,       \* modelTexturePaths / modelTexturePaths_
    modelTextures,           \* modelTextures / modelTextures_ with modelTextureSurfaces_
    composedTextures,        \* SdlRendererBase::composedTextures_
    texturesCreated,         \* history: textures created so far (identity of a texture)
    lastDraw                 \* history: what the latest RenderModelWireframe did, until EndFrame or Shutdown

\* Calls of single functions and the results they gave
VARIABLES
    resolved,                \* history: ResolveSubmeshTexture calls: [submesh, texture, synthesized]
    texturedTriangles,       \* RenderModelWireframe local: the textured triangles collected
    submitted,               \* history: the draw order of the textured pass
    mesh,                    \* a ModelData: [projected, indices], projected[i] the valid flag of position i
    meshValid,               \* history: ModelData::IsValid: [called, result]
    wirePass                 \* history: the wireframe pass of RenderModelWireframe

\* What one native renderer did on its command queue and to its cache
VARIABLES
    deviceLog,               \* history: the Signal, blocking wait, idle, submit and release
                             \* events of the latest call, in order
    signalled                \* history: every fence value signalled on the queue so far

\* One renderer object from construction to its last Shutdown
VARIABLES
    owned,                   \* the non-null resource members of the renderer
    releaseLog,              \* history: every resource handed back so far, in order
    shutdowns                \* history: Shutdown calls since the last other call

\* One call of a function of RendererBackendSelection.cpp
VARIABLES
    selection                \* [fn, text, backend, done, parsed, order, name, reparsed]

\* One call of FbxLoader::LoadModel
VARIABLES
    loaded                   \* [called, scene, ok, model]

appVars == <<pc, envRenderer, running_, frameCounter_, renderer_, statusMessage_,
          imguiInitialized_, useNativeDx12ImGui_, loadedModelValid, sdlInitialized_,
          window_, nfdInitialized_, requestedBackend, preferNativeDx12, backendOrder,
          orderIndex, dx12Error, vulkanError, softwareError, autoFallbackAttempted,
          probableBlankFrameCount, live, frameOpen, attempts, lastSample, streak,
          fallbackCount, fallbackResult, overlayLog>>

poolVars == <<srvHeap, srvDescriptorSize, srvNextFreeIndex, srvFreeList, holders,
              poolLastOp, freshAllocs, freshOks>>

frameVars == <<frameIndex, backBufferIndex, nextFenceValue, frameFence, completedValue,
               gpuQueue, frameNo, waiting>>

cacheVars == <<modelTexturePaths, modelTextures, composedTextures, texturesCreated>>

lifeVars == <<owned, releaseLog, shutdowns>>

logVars == <<deviceLog, signalled>>

selectionVars == <<selection>>

loaderVars == <<loaded>>

\* the call variables but the device log
quietVars == <<resolved, texturedTriangles, submitted, mesh, meshValid, wirePass, lifeVars,
               selectionVars, loaderVars>>

callVars == <<resolved, texturedTriangles, submitted, mesh, meshValid, wirePass, logVars, lifeVars,
             selectionVars, loaderVars>>

deviceVars == <<poolVars, rendererKind, rPhase, frameVars, recSlots, hazard, cacheVars,
                lastDraw, callVars>>

vars == <<appVars, deviceVars>>

-----------------------------------------------------------------------------
(* Bounds of the model *)

\* Run iterations explored (frameCounter_ is a uint64 that only grows).
MaxFrames == 182

(* Program constants *)

BlankFrameThreshold == 45
SampleFrameWindow == 180
clearRed == 18
clearGreen == 20
clearBlue == 24
ClearTolerance == 3
kFrameCount == 2
kSrvDescriptorCount == 64

-----------------------------------------------------------------------------
(* RendererBackendSelection.cpp *)

RendererBackend == {"Dx12", "Vulkan", "Software"}

UpperCase == <<"A","B","C","D","E","F","G","H","I","J","K","L","M",
               "N","O","P","Q","R","S","T","U","V","W","X","Y","Z">>
LowerCase == <<"a","b","c","d","e","f","g","h","i","j","k","l","m",
               "n","o","p","q","r","s","t","u","v","w","x","y","z">>

\* std::tolower on one character
ToLower(c) ==
    IF \E i \in 1..Len(UpperCase) : UpperCase[i] = c
    THEN LowerCase[CHOOSE i \in 1..Len(UpperCase) : UpperCase[i] = c]
    ELSE c

\* ParseRendererBackend without the std::tolower pass
ParseRendererBackendCaseSensitive(value) ==
    IF value = <<>> THEN "nullopt"
    ELSE IF value = <<"d","x","1","2">> THEN "Dx12"
    ELSE IF value = <<"v","u","l","k","a","n">> THEN "Vulkan"
    ELSE IF value = <<"s","o","f","t","w","a","r","e">> THEN "Software"
    ELSE "nullopt"

\* ParseRendererBackend falling back to Software for a name it does not know
ParseRendererBackendLenient(value) ==
    LET normalized == [i \in 1..Len(value) |-> ToLower(value[i])]
    IN  IF normalized = <<>> THEN "nullopt"
        ELSE IF normalized = <<"d","x","1","2">> THEN "Dx12"
        ELSE IF normalized = <<"v","u","l","k","a","n">> THEN "Vulkan"
        ELSE "Software"

ParseRendererBackend(value) ==
    LET normalized == [i \in 1..Len(value) |-> ToLower(value[i])]
    IN  IF normalized = <<>> THEN "nullopt"
        ELSE IF normalized = <<"d","x","1","2">> THEN "Dx12"
        ELSE IF normalized = <<"v","u","l","k","a","n">> THEN "Vulkan"
        ELSE IF normalized = <<"s","o","f","t","w","a","r","e">> THEN "Software"
        ELSE "nullopt"

\* BuildRendererAttemptOrder that appends the software backend to a request
BuildRendererAttemptOrderPadded(requested) ==
    IF requested = "nullopt" THEN <<"Dx12", "Vulkan", "Software">>
    ELSE IF requested = "Software" THEN <<requested>>
    ELSE <<requested, "Software">>

BuildRendererAttemptOrderSwapped(requested) ==
    IF requested # "nullopt" THEN <<requested>>
    ELSE <<"Vulkan", "Dx12", "Software">>

BuildRendererAttemptOrder(requested) ==
    IF requested # "nullopt" THEN <<requested>>
    ELSE <<"Dx12", "Vulkan", "Software">>

\* RendererBackendName with the display spelling of DirectX 12
RendererBackendNameDisplay(backend) ==
    CASE backend = "Dx12" -> <<"D","X","1","2">>
      [] backend = "Vulkan" -> <<"v","u","l","k","a","n">>
      [] backend = "Software" -> <<"s","o","f","t","w","a","r","e">>
      [] OTHER -> <<"u","n","k","n","o","w","n">>

RendererBackendName(backend) ==
    CASE backend = "Dx12" -> <<"d","x","1","2">>
      [] backend = "Vulkan" -> <<"v","u","l","k","a","n">>
      [] backend = "Software" -> <<"s","o","f","t","w","a","r","e">>
      [] OTHER -> <<"u","n","k","n","o","w","n">>

-----------------------------------------------------------------------------
(* Helpers on strings *)

\* needle occurs in hay as a contiguous run (std::string::find # npos)
Contains(hay, needle) ==
    \E i \in 0..(Len(hay) - Len(needle)) :
        \A j \in 1..Len(needle) : hay[i + j] = needle[j]

-----------------------------------------------------------------------------
(* Inputs from the environment *)

EnvValues ==
    { [set |-> FALSE, value |-> <<>>],
      [set |-> TRUE,  value |-> <<>>],
      [set |-> TRUE,  value |-> <<"d","x","1","2">>],
      [set |-> TRUE,  value |-> <<"V","u","L","k","A","n">>],
      [set |-> TRUE,  value |-> <<"s","o","f","t","w","a","r","e">>],
      [set |-> TRUE,  value |-> <<"m","e","t","a","l">>] }

\* ENGINE_NATIVE_DX12 (read on Windows only)
NativeDx12Values == {"", "1", "on", "yes"}

\* SDL_GetError()
SdlErrors == {<<>>, <<"SDL: no suitable render driver">>}

\* SDL_GetRendererName(); nullptr is printed as "unknown"
SdlRendererNames == {<<"unknown">>, <<"gpu">>}

PixelDeltas == {<<0, 0, 0>>, <<3, -3, 3>>, <<4, 0, 0>>, <<0, -4, 0>>, <<0, 0, 4>>}

Pixels == {[r |-> clearRed + d[1], g |-> clearGreen + d[2], b |-> clearBlue + d[3]] : d \in PixelDeltas}

\* What one iteration's probe can meet: no UI geometry in the draw data, a
\* failed SDL_RenderReadPixels, a failed SDL_ReadSurfacePixel, or a pixel.
ProbeInputs ==
    {[ui |-> FALSE, read |-> "none", pixel |-> [r |-> 0, g |-> 0, b |-> 0]]}
    \cup {[ui |-> TRUE, read |-> k, pixel |-> [r |-> 0, g |-> 0, b |-> 0]] : k \in {"no_surface", "no_pixel"}}
    \cup {[ui |-> TRUE, read |-> "ok", pixel |-> p] : p \in Pixels}

\* What one call of OpenLoadFbxDialog can meet: NFD_OKAY without a path, the
\* file loads, FbxLoader::LoadModel fails, the dialog is cancelled, the
\* dialog fails
LoadEvents == {"none", "loaded", "failed", "canceled", "error"}

\* FbxLoader::LoadModel's errorMessage and NFD_GetError()
LoadErrorMessage == <<"FBX load succeeded but no triangle geometry was found.">>
DialogErrors(load) == IF load = "error" THEN {<<>>, <<"dialog backend missing">>} ELSE {<<>>}

-----------------------------------------------------------------------------
(* Renderer facades: SdlRendererBase.cpp, NativeDx12Renderer.cpp *)

Abs(x) == IF x < 0 THEN -x ELSE x

\* displayName_ of the instance tryBackend constructs for a backend
InstanceFor(backend, preferNative) ==
    CASE backend = "Dx12" -> IF preferNative THEN "DirectX 12 Native" ELSE "DirectX 12"
      [] backend = "Vulkan" -> "Vulkan"
      [] backend = "Software" -> "Software"

\* SdlRendererBase::Initialize: [ok, error, held].  held: renderer_ is
\* non-null when Initialize returns.
SdlInitialize(step, sdlError, actualName) ==
    CASE step = "hint" ->
           [ok |-> FALSE, held |-> FALSE,
            error |-> <<"Failed to set SDL render driver hint.">>]
      [] step = "create" ->
           [ok |-> FALSE, held |-> FALSE, error |-> sdlError]
      [] step = "geometry" ->
           [ok |-> FALSE, held |-> FALSE,
            error |-> <<"Renderer '">> \o actualName
                      \o <<"' does not support SDL_RenderGeometry required by ImGui: ">>
                      \o (IF sdlError # <<>> THEN sdlError ELSE <<"Unknown SDL error">>)]
      [] step = "ok" ->
           [ok |-> TRUE, held |-> TRUE, error |-> <<>>]

SdlInitializeResults ==
    {SdlInitialize(step, e, n) : step \in {"hint", "create", "geometry", "ok"},
                                 e \in SdlErrors, n \in SdlRendererNames}

ToErrorMessage(label, hresult) == <<label, " (HRESULT=0x", hresult, ")">>

\* NativeDx12Renderer::Impl::Initialize, at three of its failure points and
\* on success.  held: the instance owns a device/swap chain when it returns.
NativeInitialize(step) ==
    CASE step = "hwnd" ->
           [ok |-> FALSE, held |-> FALSE,
            error |-> <<"Failed to acquire HWND from SDL window properties.">>]
      [] step = "device" ->
           [ok |-> FALSE, held |-> FALSE,
            error |-> ToErrorMessage("D3D12CreateDevice failed", "887A0004")]
      [] step = "pipeline" ->
           [ok |-> FALSE, held |-> TRUE,
            error |-> <<"Failed to compile native DX12 wireframe vertex shader.">>]
      [] step = "ok" ->
           [ok |-> TRUE, held |-> TRUE, error |-> <<>>]

NativeInitializeResults == {NativeInitialize(step) : step \in {"hwnd", "device", "pipeline", "ok"}}

InitializeResults(instance) ==
    IF instance = "DirectX 12 Native" THEN NativeInitializeResults ELSE SdlInitializeResults

\* Renderer::Shutdown followed by unique_ptr::reset on the active renderer
ShutdownRendererLeaked(owners, instance) == owners

ShutdownRenderer(owners, instance) == owners \ {instance}

\* The owners after tryBackend returns: a successful instance is moved into
\* renderer_; a failed one is destroyed with the local unique_ptr
\* (~SdlRendererBase calls Shutdown, ~Impl releases its ComPtr members).
OwnersAfterTry(owners, instance, result) ==
    IF result.ok THEN owners \cup {instance} ELSE owners

-----------------------------------------------------------------------------
(* Application.cpp: status texts *)

InvalidBackendStatus(requestedBackendName) ==
    <<"Requested renderer backend is invalid. ENGINE_RENDERER=">> \o requestedBackendName
    \o <<". Use ">> \o <<"d","x","1","2">> \o <<", ">> \o <<"v","u","l","k","a","n">>
    \o <<", or ">> \o <<"s","o","f","t","w","a","r","e">> \o <<".">>

ForcedBackendStatus(backend) ==
    <<"Using renderer backend from ENGINE_RENDERER=">> \o RendererBackendName(backend) \o <<".">>

RequestedFailedStatusNoError(requestedBackendName, requested, dx12, vulkan, software) ==
    <<"Requested renderer backend failed. ENGINE_RENDERER=">> \o requestedBackendName
    \o <<", error: ">>

RequestedFailedStatus(requestedBackendName, requested, dx12, vulkan, software) ==
    <<"Requested renderer backend failed. ENGINE_RENDERER=">> \o requestedBackendName
    \o <<", error: ">>
    \o (IF requested = "Dx12" THEN dx12 ELSE IF requested = "Vulkan" THEN vulkan ELSE software)

AllFailedStatusNoVulkan(dx12, vulkan, software) ==
    <<"Failed to create renderer. DX12: ">> \o dx12 \o <<" | Software: ">> \o software

AllFailedStatus(dx12, vulkan, software) ==
    <<"Failed to create renderer. DX12: ">> \o dx12 \o <<" | Vulkan: ">> \o vulkan
    \o <<" | Software: ">> \o software

\* statusMessage_ after a successful tryBackend
SelectedStatus(old, requested, backend) ==
    IF requested # "nullopt" THEN ForcedBackendStatus(backend)
    ELSE IF backend = "Vulkan" THEN <<"DirectX 12 failed, using Vulkan fallback.">>
    ELSE IF backend = "Software"
         THEN <<"Hardware backends unavailable, using software fallback renderer.">>
    ELSE old

ReadyStatus == <<"Ready. Load an FBX file from the UI.">>

\* Application::InitializeImGui: [ok, status]; status <<>> leaves
\* statusMessage_ as it is.
InitializeImGui(step, native, sdlError) ==
    CASE step = "platform" ->
           [ok |-> FALSE,
            status |-> (IF native
                        THEN <<"ImGui SDL3 D3D platform backend initialization failed: ">>
                        ELSE <<"ImGui SDL3 platform backend initialization failed: ">>) \o sdlError]
      [] step = "renderer" ->
           [ok |-> FALSE,
            status |-> IF native
                       THEN <<"ImGui DX12 renderer backend initialization failed.">>
                       ELSE <<"ImGui SDL renderer backend initialization failed: ">> \o sdlError]
      [] step = "ok" -> [ok |-> TRUE, status |-> <<>>]

InitializeImGuiResults(native) ==
    {InitializeImGui(step, native, e) : step \in {"platform", "renderer", "ok"}, e \in SdlErrors}

\* Application::RequestExit: the value it leaves in running_
RequestExitIgnored == TRUE

RequestExit == FALSE

-----------------------------------------------------------------------------
(* Application.cpp: the blank-output probe of Run *)

\* Run line 393
BackendForcedByEnvironment(env) == env.set /\ env.value # <<>>

\* Run line 462, with the checks of the one-shot flag and of the Software name dropped
ProbeEnabledRepeating(native, env, attempted, renderer) ==
    /\ ~native
    /\ ~BackendForcedByEnvironment(env)
    /\ renderer # "None"

\* Run line 462, with the check of the environment override dropped
ProbeEnabledWhenForced(native, env, attempted, renderer) ==
    /\ ~native
    /\ ~attempted
    /\ renderer # "None"
    /\ renderer # "Software"

\* Run line 462
ProbeEnabled(native, env, attempted, renderer) ==
    /\ ~native
    /\ ~BackendForcedByEnvironment(env)
    /\ ~attempted
    /\ renderer # "None"
    /\ renderer # "Software"

\* Run lines 473-479
NearClearColor(pixel) ==
    /\ Abs(pixel.r - clearRed) <= ClearTolerance
    /\ Abs(pixel.g - clearGreen) <= ClearTolerance
    /\ Abs(pixel.b - clearBlue) <= ClearTolerance

\* Run lines 465-483: the counter after the probe of one iteration
CountAfterSampleSticky(count, probe) ==
    IF probe.read # "ok" THEN count
    ELSE IF NearClearColor(probe.pixel) THEN count + 1 ELSE count

CountAfterSample(count, probe) ==
    IF probe.read # "ok" THEN count
    ELSE IF NearClearColor(probe.pixel) THEN count + 1 ELSE 0

\* Run line 464
SamplesThisFrame(enabled, probe, frame) ==
    enabled /\ probe.ui /\ frame < SampleFrameWindow

\* Run line 485
FallbackTriggered(count) == count >= BlankFrameThreshold

\* history: what the probe of one iteration did.  "no_ui": the draw data had
\* no UI geometry; "none": it had, and SDL_RenderReadPixels was not called;
\* "fail": it was called and gave no pixel; "near"/"far": the pixel read.
SampleKind(samples, probe) ==
    IF ~probe.ui THEN "no_ui"
    ELSE IF ~samples THEN "none"
    ELSE IF probe.read # "ok" THEN "fail"
    ELSE IF NearClearColor(probe.pixel) THEN "near" ELSE "far"

-----------------------------------------------------------------------------
(* Application.cpp: state machine of Application::Run *)

\* A D3D12_CPU_DESCRIPTOR_HANDLE.  ptr is a 64-bit SIZE_T; a handle at or
\* after the heap start is kept as the quotient and remainder of its offset
\* by srvDescriptorSize, the quotient split into its low 32 bits (index)
\* and the rest (wraps): ptr = heapStart + (wraps * 2^32 + index) * size + rem.
NullHandle == [kind |-> "null", wraps |-> 0, index |-> 0, rem |-> 0]
BelowHeapHandle == [kind |-> "below", wraps |-> 0, index |-> 0, rem |-> 0]
HandleAt(wraps, index, rem) == [kind |-> "at", wraps |-> wraps, index |-> index, rem |-> rem]

\* history record of a pool call: op "alloc" / "free", the handle passed to
\* Free, the slot concerned, Allocate's result, whether Free pushed the slot
NoPoolOp == [op |-> "none", ok |-> FALSE, index |-> 0, pushed |-> FALSE, handle |-> NullHandle]

\* NativeDx12Renderer::Impl as constructed (member initializers): no heap,
\* no descriptor handed out
ImplConstructed ==
    /\ srvHeap = FALSE
    /\ srvDescriptorSize = 0
    /\ srvNextFreeIndex = 1
    /\ srvFreeList = <<>>
    /\ holders = [slot \in 0..(kSrvDescriptorCount - 1) |-> 0]
    /\ poolLastOp = NoPoolOp
    /\ freshAllocs = 0
    /\ freshOks = 0

\* a ModelData without texture paths, texCoords and submeshes
NoModel == [texturePaths |-> <<>>, hasTexCoords |-> FALSE, submeshes |-> <<>>]

\* a call blocked in WaitForSingleObject: the function, the fence value its
\* event is set for, the arguments of RenderModelWireframe, and the phase
\* the renderer is in when the call has returned
BlockedCall(fn, value, model, overlay, back) ==
    [fn |-> fn, value |-> value, model |-> model, overlay |-> overlay, back |-> back]

\* no call is blocked
NoWait == BlockedCall("none", 0, NoModel, FALSE, "idle")

\* history record of RenderModelWireframe: the texture paths of the mesh,
\* the refresh of the texture cache ("none": not reached, "noop",
\* "released", "ok", "failed"), whether a
\* file failed to decode in it, the submeshes drawn textured, the wireframe
\* pass, the descriptor slots that work in flight at the call referred to,
\* and those of them that the call freed and handed out again
NoDraw ==
    [paths |-> <<>>, refresh |-> "none", decodeFailed |-> FALSE, textured |-> {},
     wire |-> FALSE, inFlight |-> {}, reused |-> {}]

\* history record of the textured pass: not run / the renderer that ran it,
\* whether the vertex buffer could be allocated and mapped, the triangles in
\* the order they were drawn
NotSubmitted == [done |-> FALSE, backend |-> "none", bufferOk |-> FALSE, order |-> <<>>]

\* history record of the wireframe pass: the renderer, whether textured
\* geometry was drawn before it, wireOverlayEnabled, whether the wire vertex
\* buffer could be allocated and mapped, the segments drawn as
\* [triangle, a, b]: the triangle's number and the two vertex indices
NoWirePass ==
    [done |-> FALSE, backend |-> "none",
     input |-> [texturePaths |-> FALSE, hasTexCoords |-> FALSE, texture |-> FALSE,
                submeshes |-> <<>>],
     overlay |-> FALSE, bufferOk |-> FALSE,
     triangles |-> <<>>, textured |-> FALSE, lines |-> <<>>]

\* a default-constructed ModelData
EmptyMesh == [projected |-> <<>>, indices |-> <<>>]

\* a call of ParseRendererBackend (fn "Parse", argument text), of
\* BuildRendererAttemptOrder (fn "Build", argument backend) or of
\* RendererBackendName (fn "Name", argument backend) and what it returned
SelectionCall(fn, text, backend) ==
    [fn |-> fn, text |-> text, backend |-> backend, done |-> FALSE, parsed |-> "none",
     order |-> <<>>, name |-> <<>>, reparsed |-> "none"]

NoSelection == SelectionCall("none", <<>>, "nullopt")

\* a default-constructed ModelData as FbxLoader fills it
ClearedModel ==
    [positions |-> <<>>, texCoords |-> <<>>, indices |-> <<>>, primaryTexturePath |-> "",
     texturePaths |-> <<>>, submeshes |-> <<>>]

\* LoadModel has not been called; the importer would return no scene
NotLoaded ==
    [called |-> FALSE, scene |-> [readable |-> FALSE, meshes |-> <<>>], ok |-> FALSE,
     model |-> ClearedModel]

\* no function has been called on its own, but for the inputs named
NoCallsExcept(inputs) ==
    /\ resolved = <<>>
    /\ IF "texturedTriangles" \in inputs THEN TRUE ELSE texturedTriangles = <<>>
    /\ submitted = NotSubmitted
    /\ IF "mesh" \in inputs THEN TRUE ELSE mesh = EmptyMesh
    /\ meshValid = [called |-> FALSE, result |-> FALSE]
    /\ wirePass = NoWirePass
    /\ IF "owned" \in inputs THEN TRUE ELSE owned = {}
    /\ releaseLog = <<>>
    /\ shutdowns = 0
    /\ deviceLog = <<>>
    /\ signalled = {}
    /\ IF "selection" \in inputs THEN TRUE ELSE selection = NoSelection
    /\ IF "loaded" \in inputs THEN TRUE ELSE loaded = NotLoaded

NoCalls == NoCallsExcept({})

\* No renderer has been initialized: Impl's member initializers, empty caches
RendererFields ==
    /\ rendererKind = "none"
    /\ rPhase = "idle"
    /\ frameIndex = 0
    /\ backBufferIndex = 0
    /\ nextFenceValue = 1
    /\ frameFence = [i \in 0..(kFrameCount - 1) |-> 0]
    /\ completedValue = 0
    /\ gpuQueue = <<>>
    /\ waiting = NoWait
    /\ frameNo = 0
    /\ recSlots = {}
    /\ hazard = FALSE
    /\ modelTexturePaths = <<>>
    /\ modelTextures = <<>>
    /\ composedTextures = <<>>
    /\ texturesCreated = 0
    /\ lastDraw = NoDraw

RendererConstructed ==
    /\ NoCalls
    /\ RendererFields

Init ==
    /\ ImplConstructed
    /\ RendererConstructed
    /\ pc = "start"
    /\ envRenderer \in EnvValues
    /\ running_ = TRUE
    /\ frameCounter_ = 0
    /\ renderer_ = "None"
    /\ statusMessage_ = <<>>
    /\ imguiInitialized_ = FALSE
    /\ useNativeDx12ImGui_ = FALSE
    /\ loadedModelValid = FALSE
    /\ sdlInitialized_ = FALSE
    /\ window_ = FALSE
    /\ nfdInitialized_ = FALSE
    /\ requestedBackend = "nullopt"
    /\ preferNativeDx12 = FALSE
    /\ backendOrder = <<>>
    /\ orderIndex = 1
    /\ dx12Error = <<>>
    /\ vulkanError = <<>>
    /\ softwareError = <<>>
    /\ autoFallbackAttempted = FALSE
    /\ probableBlankFrameCount = 0
    /\ live = {}
    /\ frameOpen = "None"
    /\ attempts = <<>>
    /\ lastSample = "none"
    /\ streak = 0
    /\ fallbackCount = 0
    /\ fallbackResult = "none"
    /\ overlayLog = <<>>

createLocals == <<requestedBackend, preferNativeDx12, backendOrder, orderIndex,
                  dx12Error, vulkanError, softwareError>>
runLocals == <<autoFallbackAttempted, probableBlankFrameCount>>
probeHistory == <<lastSample, streak, fallbackCount, fallbackResult>>
rendererVars == <<renderer_, live, frameOpen, imguiInitialized_, useNativeDx12ImGui_,
                  overlayLog>>

\* renderer_ is the native renderer, whose BeginFrame, RenderModelWireframe
\* and Shutdown, and ShutdownImGui on it, wait on the fence
NativeActive == renderer_ = "DirectX 12 Native"

\* a call on the UI overlay or on a renderer
OverlayEvent(e, renderer, ok) == [e |-> e, renderer |-> renderer, ok |-> ok]

\* Application::ShutdownImGui lines 353-371: nothing when the overlay is
\* not initialized
ShutdownImGuiEvents(imguiInitialized, native, renderer) ==
    IF ~imguiInitialized THEN <<>>
    ELSE <<OverlayEvent(IF native THEN "ImGui_ImplDX12_Shutdown"
                        ELSE "ImGui_ImplSDLRenderer3_Shutdown", renderer, TRUE),
           OverlayEvent("ImGui::DestroyContext", renderer, TRUE)>>

\* lines 490-493 and 746-749
RendererShutdownEvents(renderer) ==
    IF renderer = "None" THEN <<>>
    ELSE <<OverlayEvent("Renderer::Shutdown", renderer, TRUE)>>

\* a teardown that shuts the renderer down before the overlay
TeardownEventsRendererFirst(imguiInitialized, native, renderer) ==
    RendererShutdownEvents(renderer)
        \o ShutdownImGuiEvents(imguiInitialized, native, renderer)

\* Application::Shutdown lines 743-749 and Run lines 489-493
TeardownEvents(imguiInitialized, native, renderer) ==
    ShutdownImGuiEvents(imguiInitialized, native, renderer)
        \o RendererShutdownEvents(renderer)

\* Run lines 495-512: the software renderer, then the overlay on it
ReinitEvents(rendererOk, overlayOk) ==
    <<OverlayEvent("Renderer::Initialize", "Software", rendererOk)>>
        \o (IF rendererOk THEN <<OverlayEvent("InitializeImGui", "Software", overlayOk)>>
            ELSE <<>>)

\* Application::Initialize up to the call of CreateRenderer
AppInitialize ==
    /\ pc = "start"
    /\ \E step \in {"sdl", "window", "nfd", "ok"}, e \in SdlErrors, nfdError \in {<<>>, <<"dialog backend missing">>} :
         /\ sdlInitialized_' = (step # "sdl")
         /\ window_' = (step \notin {"sdl", "window"})
         /\ nfdInitialized_' = (step = "ok")
         /\ statusMessage_' =
              CASE step \in {"sdl", "window"} -> e
                [] step = "nfd" -> <<"NativeFileDialog initialization failed">>
                                   \o (IF nfdError # <<>> THEN <<": ">> \o nfdError ELSE <<".">>)
                [] step = "ok" -> statusMessage_
         /\ pc' = IF step = "ok" THEN "create_renderer" ELSE "startup_failed"
    /\ UNCHANGED <<envRenderer, running_, frameCounter_, loadedModelValid, createLocals,
                   runLocals, rendererVars, attempts, probeHistory>>
    /\ UNCHANGED deviceVars

\* Application::CreateRenderer up to the attempt loop
CreateRendererBegin ==
    /\ pc = "create_renderer"
    /\ \E win32 \in BOOLEAN, nativeDx12Value \in NativeDx12Values :
         LET requestedBackendName == IF envRenderer.set THEN envRenderer.value ELSE <<>>
             requested == ParseRendererBackend(requestedBackendName)
             prefer == win32 /\ nativeDx12Value \in {"1", "true", "TRUE", "on", "ON"}
         IN  /\ useNativeDx12ImGui_' = FALSE
             /\ IF requestedBackendName # <<>> /\ requested = "nullopt"
                THEN /\ statusMessage_' = InvalidBackendStatus(requestedBackendName)
                     /\ pc' = "startup_failed"
                     /\ UNCHANGED createLocals
                ELSE /\ requestedBackend' = requested
                     /\ preferNativeDx12' = prefer
                     /\ backendOrder' = BuildRendererAttemptOrder(requested)
                     /\ orderIndex' = 1
                     /\ pc' = "try_backend"
                     /\ UNCHANGED <<statusMessage_, dx12Error, vulkanError, softwareError>>
    /\ UNCHANGED <<envRenderer, running_, frameCounter_, loadedModelValid, sdlInitialized_,
                   window_, nfdInitialized_, runLocals, renderer_, live, frameOpen,
                   imguiInitialized_, attempts, probeHistory, overlayLog>>
    /\ UNCHANGED deviceVars

\* One iteration of the attempt loop of CreateRenderer (tryBackend included)
TryBackend ==
    /\ pc = "try_backend"
    /\ orderIndex <= Len(backendOrder)
    /\ LET backend == backendOrder[orderIndex]
           instance == InstanceFor(backend, preferNativeDx12)
       IN  \E result \in InitializeResults(instance) :
             /\ attempts' = Append(attempts, [backend |-> backend, ok |-> result.ok])
             /\ live' = OwnersAfterTry(live, instance, result)
             /\ IF result.ok
                THEN /\ renderer_' = instance
                     /\ useNativeDx12ImGui_' = (instance = "DirectX 12 Native")
                     /\ statusMessage_' = SelectedStatus(statusMessage_, requestedBackend, backend)
                     /\ pc' = "init_imgui"
                     \* return true: the locals go out of scope
                     /\ requestedBackend' = "nullopt"
                     /\ preferNativeDx12' = FALSE
                     /\ backendOrder' = <<>>
                     /\ orderIndex' = 1
                     /\ dx12Error' = <<>>
                     /\ vulkanError' = <<>>
                     /\ softwareError' = <<>>
                ELSE /\ dx12Error' = IF backend = "Dx12" THEN result.error ELSE dx12Error
                     /\ vulkanError' = IF backend = "Vulkan" THEN result.error ELSE vulkanError
                     /\ softwareError' = IF backend \notin {"Dx12", "Vulkan"}
                                         THEN result.error ELSE softwareError
                     /\ orderIndex' = orderIndex + 1
                     /\ useNativeDx12ImGui_' = FALSE
                     /\ UNCHANGED <<renderer_, statusMessage_, pc, requestedBackend,
                                    preferNativeDx12, backendOrder>>
    /\ UNCHANGED <<envRenderer, running_, frameCounter_, loadedModelValid, sdlInitialized_,
                   window_, nfdInitialized_, runLocals, frameOpen, imguiInitialized_,
                   probeHistory, overlayLog>>
    /\ UNCHANGED deviceVars

\* CreateRenderer after the loop has run out of backends
CreateRendererFail ==
    /\ pc = "try_backend"
    /\ orderIndex > Len(backendOrder)
    /\ LET requestedBackendName == IF envRenderer.set THEN envRenderer.value ELSE <<>>
       IN  statusMessage_' =
             IF requestedBackend # "nullopt"
             THEN RequestedFailedStatus(requestedBackendName, requestedBackend,
                                        dx12Error, vulkanError, softwareError)
             ELSE AllFailedStatus(dx12Error, vulkanError, softwareError)
    /\ pc' = "startup_failed"
    /\ UNCHANGED <<envRenderer, running_, frameCounter_, loadedModelValid, sdlInitialized_,
                   window_, nfdInitialized_, createLocals, runLocals, rendererVars,
                   attempts, probeHistory>>
    /\ UNCHANGED deviceVars

\* Application::Initialize after CreateRenderer: InitializeImGui and the Ready status
StartupInitializeImGui ==
    /\ pc = "init_imgui"
    /\ \E result \in InitializeImGuiResults(useNativeDx12ImGui_) :
         /\ imguiInitialized_' = result.ok
         /\ overlayLog' = <<OverlayEvent("InitializeImGui", renderer_, result.ok)>>
         /\ statusMessage_' = IF result.ok THEN ReadyStatus ELSE result.status
         /\ pc' = IF result.ok THEN "loop" ELSE "startup_failed"
    /\ UNCHANGED <<envRenderer, running_, frameCounter_, loadedModelValid, sdlInitialized_,
                   window_, nfdInitialized_, createLocals, runLocals, renderer_, live,
                   frameOpen, useNativeDx12ImGui_, attempts, probeHistory>>
    /\ UNCHANGED deviceVars

\* Application::Shutdown (ShutdownImGui, the renderer, the window, NFD, SDL)
\* from the point where none of its calls waits on the fence
AppShutdown ==
    /\ overlayLog' = TeardownEvents(imguiInitialized_, useNativeDx12ImGui_, renderer_)
    /\ imguiInitialized_' = FALSE
    /\ live' = IF renderer_ # "None" THEN ShutdownRenderer(live, renderer_) ELSE live
    /\ renderer_' = "None"
    /\ window_' = FALSE
    /\ nfdInitialized_' = FALSE
    /\ sdlInitialized_' = FALSE

\* Application::Shutdown on the native renderer up to its first fence wait:
\* that of ShutdownImGui (line 361) when the overlay is initialized, else
\* that of the renderer's Shutdown (line 747)
AppShutdownNative ==
    /\ NativeActive
    /\ pc = "startup_failed" \/ (pc = "loop" /\ ~running_)
    /\ pc' = IF imguiInitialized_ THEN "shutdown_imgui" ELSE "shutdown_renderer"
    /\ UNCHANGED <<envRenderer, running_, frameCounter_, loadedModelValid, statusMessage_,
                   sdlInitialized_, window_, nfdInitialized_, createLocals, runLocals,
                   rendererVars, attempts, probeHistory>>
    /\ UNCHANGED deviceVars

\* ShutdownImGui once WaitForGpuIdle has returned (lines 363-370), and
\* Shutdown up to the fence wait of the renderer's Shutdown
ShutdownImGuiResume ==
    /\ pc = "shutdown_imgui"
    /\ overlayLog' = ShutdownImGuiEvents(imguiInitialized_, useNativeDx12ImGui_, renderer_)
    /\ imguiInitialized_' = FALSE
    /\ pc' = "shutdown_renderer"
    /\ UNCHANGED <<envRenderer, running_, frameCounter_, loadedModelValid, statusMessage_,
                   sdlInitialized_, window_, nfdInitialized_, createLocals, runLocals,
                   renderer_, live, frameOpen, useNativeDx12ImGui_, attempts, probeHistory>>
    /\ UNCHANGED deviceVars

\* The renderer's Shutdown has returned: the rest of Application::Shutdown
AppShutdownResume ==
    /\ pc = "shutdown_renderer"
    /\ AppShutdown
    /\ pc' = "done"
    /\ UNCHANGED <<envRenderer, running_, frameCounter_, loadedModelValid, statusMessage_,
                   createLocals, runLocals, frameOpen, useNativeDx12ImGui_, attempts,
                   probeHistory>>
    /\ UNCHANGED deviceVars

\* Run when Initialize returned false: Shutdown and return 1
RunStartupFailed ==
    /\ pc = "startup_failed"
    /\ ~NativeActive
    /\ AppShutdown
    /\ pc' = "done"
    /\ requestedBackend' = "nullopt"
    /\ preferNativeDx12' = FALSE
    /\ backendOrder' = <<>>
    /\ orderIndex' = 1
    /\ dx12Error' = <<>>
    /\ vulkanError' = <<>>
    /\ softwareError' = <<>>
    /\ UNCHANGED <<envRenderer, running_, frameCounter_, loadedModelValid, statusMessage_,
                   runLocals, frameOpen, useNativeDx12ImGui_, attempts, probeHistory>>
    /\ UNCHANGED deviceVars

-----------------------------------------------------------------------------
(* Application.cpp: the main loop of Run *)

\* OpenLoadFbxDialog: loadedModel_.IsValid() and statusMessage_ afterwards
LoadedAfter(valid, load) == IF load = "loaded" THEN TRUE ELSE valid

StatusAfterLoad(status, load, errorText) ==
    CASE load = "loaded" -> <<"Loaded model successfully.">>
      [] load = "failed" -> <<"FBX load failed: ">> \o LoadErrorMessage
      [] load = "canceled" -> <<"File open canceled.">>
      [] load = "error" -> <<"File dialog failed: ">>
                           \o (IF errorText # <<>> THEN errorText ELSE <<"Unknown error">>)
      [] OTHER -> status

\* An iteration of the loop is under way: the loop condition held (Run line
\* 395), or a file dialog opened in this iteration has returned, into the
\* event loop ("events") or into UpdateGui ("gui")
IterationEntered == (pc = "loop" /\ running_) \/ pc \in {"events", "gui"}

\* The quit events (SDL_EVENT_QUIT, the window close, Escape) the event loop
\* can still handle: none once UpdateGui has been reached
QuitEvents(at) == IF at = "gui" THEN {FALSE} ELSE BOOLEAN

\* OpenLoadFbxDialog up to NFD_OpenDialogU8, which blocks while the modal
\* dialog is open. It is called for the key O of the event loop (Run line
\* 409), after the events handled before it, and for the "Load FBX" button
\* of UpdateGui (line 562), after all events.
OpenLoadFbxDialog ==
    /\ (pc = "loop" /\ running_) \/ pc = "events"
    /\ frameCounter_ < MaxFrames
    /\ \E quit \in BOOLEAN, source \in {"key", "button"} :
         /\ running_' = IF quit THEN RequestExit ELSE running_
         /\ pc' = IF source = "key" THEN "dialog_key" ELSE "dialog_button"
    /\ UNCHANGED <<envRenderer, frameCounter_, loadedModelValid, statusMessage_,
                   sdlInitialized_, window_, nfdInitialized_, createLocals, runLocals,
                   rendererVars, attempts, probeHistory>>
    /\ UNCHANGED deviceVars

\* NFD_OpenDialogU8 has returned: the rest of OpenLoadFbxDialog (lines
\* 686-740), back to the event loop or to UpdateGui.
OpenLoadFbxDialogResume ==
    /\ pc \in {"dialog_key", "dialog_button"}
    /\ \E load \in LoadEvents :
       \E errorText \in DialogErrors(load) :
         /\ loadedModelValid' = LoadedAfter(loadedModelValid, load)
         /\ statusMessage_' = StatusAfterLoad(statusMessage_, load, errorText)
    /\ pc' = IF pc = "dialog_key" THEN "events" ELSE "gui"
    /\ UNCHANGED <<envRenderer, running_, frameCounter_, sdlInitialized_, window_,
                   nfdInitialized_, createLocals, runLocals, rendererVars, attempts,
                   probeHistory>>
    /\ UNCHANGED deviceVars

\* history: the run of near-clear samples after the probe of one iteration
StreakAfter(old, kind) ==
    IF kind = "near" THEN old + 1 ELSE IF kind = "far" THEN 0 ELSE old

\* An iteration of the loop on an SDL renderer in which the live fallback
\* is not triggered, from its start or from the return of its last file
\* dialog: the events, UpdateGui, BeginFrame, RenderModelWireframe, the
\* probe, the UI draw, EndFrame, ++frameCounter_.
FrameIteration ==
    /\ IterationEntered
    /\ frameCounter_ < MaxFrames
    /\ ~NativeActive
    /\ \E quit \in QuitEvents(pc), probe \in ProbeInputs :
         LET enabled == ProbeEnabled(useNativeDx12ImGui_, envRenderer,
                                     autoFallbackAttempted, renderer_)
             samples == SamplesThisFrame(enabled, probe, frameCounter_)
             count == IF samples THEN CountAfterSample(probableBlankFrameCount, probe)
                      ELSE probableBlankFrameCount
             kind == SampleKind(samples, probe)
         IN  /\ ~(samples /\ FallbackTriggered(count))
             /\ running_' = IF quit THEN RequestExit ELSE running_
             /\ probableBlankFrameCount' = count
             /\ lastSample' = kind
             /\ streak' = StreakAfter(streak, kind)
             \* BeginFrame ... EndFrame on renderer_
             /\ frameOpen' = "None"
             /\ frameCounter_' = frameCounter_ + 1
    /\ pc' = "loop"
    /\ UNCHANGED <<envRenderer, loadedModelValid, statusMessage_, sdlInitialized_, window_, nfdInitialized_, createLocals,
                   autoFallbackAttempted, renderer_, live, imguiInitialized_,
                   useNativeDx12ImGui_, attempts, fallbackCount, fallbackResult, overlayLog>>
    /\ UNCHANGED deviceVars

\* An iteration on the native renderer, from its start or from the return
\* of its last file dialog, up to the fence wait of BeginFrame (Run lines
\* 396-446): the events and UpdateGui.
FrameIterationNative ==
    /\ IterationEntered
    /\ frameCounter_ < MaxFrames
    /\ NativeActive
    /\ \E quit \in QuitEvents(pc) :
         running_' = IF quit THEN RequestExit ELSE running_
    /\ pc' = "begin_frame"
    /\ UNCHANGED <<envRenderer, frameCounter_, loadedModelValid, statusMessage_,
                   sdlInitialized_, window_, nfdInitialized_,
                   createLocals, runLocals, rendererVars, attempts, probeHistory>>
    /\ UNCHANGED deviceVars

\* BeginFrame has returned and RenderModelWireframe (Run lines 448-450)
\* waits for the GPU to be idle before it reloads its textures.
FrameIterationDraw ==
    /\ pc = "begin_frame"
    /\ loadedModelValid
    /\ pc' = "draw"
    /\ UNCHANGED <<envRenderer, running_, frameCounter_, loadedModelValid, statusMessage_,
                   sdlInitialized_, window_, nfdInitialized_, createLocals, runLocals,
                   rendererVars, attempts, probeHistory>>
    /\ UNCHANGED deviceVars

\* The rest of the iteration on the native renderer once BeginFrame or
\* RenderModelWireframe has returned: the probe, the UI draw, EndFrame,
\* ++frameCounter_.
FrameIterationResume ==
    /\ pc \in {"begin_frame", "draw"}
    /\ \E probe \in ProbeInputs :
         LET enabled == ProbeEnabled(useNativeDx12ImGui_, envRenderer,
                                     autoFallbackAttempted, renderer_)
             samples == SamplesThisFrame(enabled, probe, frameCounter_)
             count == IF samples THEN CountAfterSample(probableBlankFrameCount, probe)
                      ELSE probableBlankFrameCount
             kind == SampleKind(samples, probe)
         IN  /\ ~(samples /\ FallbackTriggered(count))
             /\ probableBlankFrameCount' = count
             /\ lastSample' = kind
             /\ streak' = StreakAfter(streak, kind)
             /\ frameOpen' = "None"
             /\ frameCounter_' = frameCounter_ + 1
    /\ pc' = "loop"
    /\ UNCHANGED <<envRenderer, running_, loadedModelValid, statusMessage_, sdlInitialized_,
                   window_, nfdInitialized_, createLocals, autoFallbackAttempted, renderer_,
                   live, imguiInitialized_, useNativeDx12ImGui_, attempts, fallbackCount,
                   fallbackResult, overlayLog>>
    /\ UNCHANGED deviceVars

\* The iteration in which the live fallback is triggered, from its start
\* or from the return of its last file dialog, up to the teardown of the
\* accelerated renderer (Run lines 396-493).
FrameFallbackTeardown ==
    /\ IterationEntered
    /\ frameCounter_ < MaxFrames
    /\ \E quit \in QuitEvents(pc), probe \in ProbeInputs :
         LET enabled == ProbeEnabled(useNativeDx12ImGui_, envRenderer,
                                     autoFallbackAttempted, renderer_)
             samples == SamplesThisFrame(enabled, probe, frameCounter_)
             count == IF samples THEN CountAfterSample(probableBlankFrameCount, probe)
                      ELSE probableBlankFrameCount
             kind == SampleKind(samples, probe)
         IN  /\ samples /\ FallbackTriggered(count)
             /\ running_' = IF quit THEN RequestExit ELSE running_
             /\ probableBlankFrameCount' = count
             /\ lastSample' = kind
             /\ streak' = StreakAfter(streak, kind)
             \* BeginFrame was issued on renderer_ (line 447); no EndFrame follows
             /\ frameOpen' = renderer_
             /\ autoFallbackAttempted' = TRUE
             /\ fallbackCount' = fallbackCount + 1
             \* ShutdownImGui, renderer_->Shutdown(), renderer_.reset()
             /\ overlayLog' = TeardownEvents(imguiInitialized_, useNativeDx12ImGui_, renderer_)
             /\ imguiInitialized_' = FALSE
             /\ live' = ShutdownRenderer(live, renderer_)
             /\ renderer_' = "None"
             /\ pc' = "fallback_reinit"
    /\ UNCHANGED <<envRenderer, frameCounter_, loadedModelValid, statusMessage_,
                   sdlInitialized_, window_, nfdInitialized_, createLocals,
                   useNativeDx12ImGui_, attempts, fallbackResult>>
    /\ UNCHANGED deviceVars

\* The rest of that iteration (Run lines 495-517): the Software renderer
\* and the UI backend are initialized, then `continue`.
FallbackReinit ==
    /\ pc = "fallback_reinit"
    /\ \E result \in SdlInitializeResults, ui \in InitializeImGuiResults(FALSE) :
         /\ live' = OwnersAfterTry(live, "Software", result)
         /\ overlayLog' = ReinitEvents(result.ok, ui.ok)
         /\ IF ~result.ok
            THEN /\ statusMessage_' = <<"Automatic software fallback failed: ">> \o result.error
                 /\ running_' = RequestExit
                 /\ fallbackResult' = "init_failed"
                 /\ UNCHANGED <<renderer_, imguiInitialized_>>
            ELSE /\ renderer_' = "Software"
                 /\ imguiInitialized_' = ui.ok
                 /\ IF ~ui.ok
                    THEN /\ statusMessage_' =
                              <<"Automatic software fallback failed during ImGui initialization.">>
                         /\ running_' = RequestExit
                         /\ fallbackResult' = "imgui_failed"
                    ELSE /\ statusMessage_' =
                              <<"Detected blank accelerated output. Switched to software renderer.">>
                         /\ running_' = running_
                         /\ fallbackResult' = "switched"
         /\ useNativeDx12ImGui_' = IF result.ok THEN FALSE ELSE useNativeDx12ImGui_
    /\ probableBlankFrameCount' = 0
    /\ frameCounter_' = frameCounter_ + 1
    /\ pc' = "loop"
    /\ UNCHANGED <<envRenderer, loadedModelValid, sdlInitialized_, window_, nfdInitialized_,
                   createLocals, autoFallbackAttempted, frameOpen, attempts, lastSample,
                   streak, fallbackCount>>
    /\ UNCHANGED deviceVars

\* The loop condition fails: Shutdown and return 0
LoopExit ==
    /\ pc = "loop"
    /\ ~running_
    /\ ~NativeActive
    /\ AppShutdown
    /\ pc' = "done"
    /\ UNCHANGED <<envRenderer, running_, frameCounter_, loadedModelValid, statusMessage_,
                   createLocals, runLocals, frameOpen, useNativeDx12ImGui_, attempts,
                   probeHistory>>
    /\ UNCHANGED deviceVars

\* Sessions in which no file dialog is opened
Next ==
    \/ AppInitialize
    \/ CreateRendererBegin
    \/ TryBackend
    \/ CreateRendererFail
    \/ StartupInitializeImGui
    \/ RunStartupFailed
    \/ FrameIteration
    \/ FrameIterationNative
    \/ FrameIterationResume
    \/ FrameFallbackTeardown
    \/ FallbackReinit
    \/ LoopExit
    \/ AppShutdownNative
    \/ ShutdownImGuiResume
    \/ AppShutdownResume

Spec == Init /\ [][Next]_vars

\* Sessions with file dialogs, run with ENGINE_RENDERER naming a backend
\* (the blank-output probe is then off in every iteration)
InitDialog == Init /\ BackendForcedByEnvironment(envRenderer)

NextDialog ==
    \/ AppInitialize
    \/ CreateRendererBegin
    \/ TryBackend
    \/ CreateRendererFail
    \/ StartupInitializeImGui
    \/ RunStartupFailed
    \/ OpenLoadFbxDialog
    \/ OpenLoadFbxDialogResume
    \/ FrameIteration
    \/ FrameIterationNative
    \/ FrameIterationDraw
    \/ FrameIterationResume
    \/ LoopExit
    \/ AppShutdownNative
    \/ ShutdownImGuiResume
    \/ AppShutdownResume

SpecDialog == InitDialog /\ [][NextDialog]_vars

\* Startup alone: Application::Initialize and its failure path
NextStartup ==
    \/ AppInitialize
    \/ CreateRendererBegin
    \/ TryBackend
    \/ CreateRendererFail
    \/ StartupInitializeImGui
    \/ RunStartupFailed
    \/ AppShutdownNative
    \/ AppShutdownResume

SpecStartup == Init /\ [][NextStartup]_vars

TypeOK ==
    /\ pc \in {"start", "create_renderer", "try_backend", "init_imgui", "startup_failed",
               "loop", "dialog_key", "dialog_button", "events", "gui", "begin_frame",
               "draw", "fallback_reinit", "shutdown_imgui",
               "shutdown_renderer", "done"}
    /\ frameCounter_ \in 0..MaxFrames
    /\ probableBlankFrameCount \in 0..BlankFrameThreshold
    /\ renderer_ \in {"None", "DirectX 12", "DirectX 12 Native", "Vulkan", "Software"}

-----------------------------------------------------------------------------
(* Properties of startup selection *)

AutoDetect == ~BackendForcedByEnvironment(envRenderer)
\* c is the character d of a backend name, in either letter case
SpellsChar(c, d) == c = d \/ \E k \in 1..Len(LowerCase) : LowerCase[k] = d /\ UpperCase[k] = c
\* the backend whose name ENGINE_RENDERER spells in any letter case, if any
Override ==
    LET spelled == {b \in RendererBackend :
                      /\ Len(RendererBackendName(b)) = Len(envRenderer.value)
                      /\ \A i \in 1..Len(envRenderer.value) :
                            SpellsChar(envRenderer.value[i], RendererBackendName(b)[i])}
    IN  IF spelled = {} THEN "nullopt" ELSE CHOOSE b \in spelled : TRUE
InstancesOf(backend) ==
    IF backend = "Dx12" THEN {"DirectX 12", "DirectX 12 Native"}
    ELSE {InstanceFor(backend, FALSE)}
LastAttempt == attempts[Len(attempts)]
\* CreateRenderer has been entered and has returned false
CreateRendererFailed == pc = "startup_failed" /\ nfdInitialized_ /\ renderer_ = "None"

\* C1: in auto-detect mode the backends are attempted in the order Dx12,
\* Vulkan, Software; a backend is attempted only after every earlier one
\* failed; the first one that initializes becomes the active renderer and
\* nothing is attempted after it.
C1_AutoDetectOrder ==
    AutoDetect =>
        /\ Len(attempts) <= 3
        /\ \A i \in 1..Len(attempts) :
             /\ attempts[i].backend = <<"Dx12", "Vulkan", "Software">>[i]
             /\ (i < Len(attempts) => ~attempts[i].ok)
        /\ (pc \in {"init_imgui", "loop"} =>
              /\ attempts # <<>>
              /\ LastAttempt.ok
              /\ renderer_ \in InstancesOf(LastAttempt.backend))
        /\ (pc = "try_backend" => renderer_ = "None" /\ \A i \in 1..Len(attempts) : ~attempts[i].ok)

C1_Witness ==
    /\ AutoDetect
    /\ Len(attempts) = 3
    /\ ~attempts[1].ok /\ ~attempts[2].ok /\ attempts[3].ok
    /\ renderer_ = "Software"

\* C2: with a valid override X whose Initialize fails, CreateRenderer fails
\* with a status that contains X's captured error, no renderer is active
\* and X is the only backend ever attempted.
C2_OverrideFailure ==
    (~AutoDetect /\ Override # "nullopt") =>
        /\ \A i \in 1..Len(attempts) : i = 1 /\ attempts[i].backend = Override
        /\ ((attempts # <<>> /\ ~attempts[1].ok) =>
              /\ renderer_ = "None"
              /\ live = {}
              /\ pc \in {"try_backend", "startup_failed", "done"}
              /\ (pc = "startup_failed" =>
                    Contains(statusMessage_,
                             CASE Override = "Dx12" -> dx12Error
                               [] Override = "Vulkan" -> vulkanError
                               [] Override = "Software" -> softwareError)))

C2_Witness ==
    /\ Override = "Vulkan"
    /\ attempts = <<[backend |-> "Vulkan", ok |-> FALSE]>>
    /\ pc = "startup_failed"
    /\ vulkanError # <<>>
    /\ Contains(statusMessage_, vulkanError)

\* C3: a non-empty override that is no backend name makes CreateRenderer
\* fail at once: the status lists the valid names, Initialize is called on
\* no backend and no renderer is active.
C3_InvalidOverride ==
    (~AutoDetect /\ Override = "nullopt") =>
        /\ attempts = <<>>
        /\ renderer_ = "None"
        /\ live = {}
        /\ pc \in {"start", "create_renderer", "startup_failed", "done"}
        /\ (CreateRendererFailed =>
              /\ \A b \in RendererBackend : Contains(statusMessage_, RendererBackendName(b))
              /\ Contains(statusMessage_, envRenderer.value))

C3_Witness ==
    /\ envRenderer.value = <<"m","e","t","a","l">>
    /\ CreateRendererFailed
    /\ statusMessage_ = InvalidBackendStatus(envRenderer.value)
    /\ attempts = <<>>

\* C4: in auto-detect mode, when Dx12, Vulkan and Software all fail,
\* CreateRenderer fails, no renderer is active and the status contains the
\* captured error of each of the three.
C4_AllFailed ==
    (AutoDetect /\ Len(attempts) = 3 /\ ~attempts[3].ok) =>
        /\ renderer_ = "None"
        /\ live = {}
        /\ pc \in {"try_backend", "startup_failed", "done"}
        /\ (pc = "startup_failed" =>
              /\ Contains(statusMessage_, dx12Error)
              /\ Contains(statusMessage_, vulkanError)
              /\ Contains(statusMessage_, softwareError))

C4_Witness ==
    /\ AutoDetect
    /\ Len(attempts) = 3 /\ ~attempts[3].ok
    /\ pc = "startup_failed"
    /\ dx12Error # <<>> /\ vulkanError # <<>> /\ softwareError # <<>>
    /\ dx12Error # vulkanError

-----------------------------------------------------------------------------
(* Properties of the live fallback *)

\* a step of an iteration of the loop (Run line 395 held) that does not
\* stop at a file dialog
IterationStep ==
    /\ IterationEntered \/ pc \in {"begin_frame", "draw"}
    /\ pc' \notin {"dialog_key", "dialog_button"}
\* the iteration just run called SDL_RenderReadPixels (Run line 468)
SampledNext == lastSample' \in {"fail", "near", "far"}
\* the iteration just run tore the accelerated renderer down (Run line 486)
TriggeredNext == pc' = "fallback_reinit"
FallbackFailed == fallbackResult \in {"init_failed", "imgui_failed"}

\* C5: the live fallback is performed at most once per session; once it
\* has been attempted no later frame triggers a second reinitialization.
C5_FallbackOnce ==
    /\ fallbackCount <= 1
    /\ (pc = "fallback_reinit" => fallbackCount = 1 /\ autoFallbackAttempted)
    /\ (autoFallbackAttempted <=> fallbackCount = 1)

C5_Witness ==
    /\ fallbackCount = 1
    /\ fallbackResult = "switched"
    /\ renderer_ = "Software"
    /\ pc = "loop"
    /\ frameCounter_ >= 2 * BlankFrameThreshold + 10

\* C6: the blank-frame counter goes up by one on each near-clear sample and
\* back to 0 on any other sample that was read; the fallback is triggered
\* exactly by the sample that completes 45 consecutive near-clear samples
\* taken with UI geometry, never by fewer.
C6_BlankCounter ==
    [][IterationStep =>
         /\ (lastSample' = "near" /\ ~TriggeredNext =>
               probableBlankFrameCount' = probableBlankFrameCount + 1)
         /\ (lastSample' = "near" /\ TriggeredNext =>
               probableBlankFrameCount + 1 = BlankFrameThreshold)
         /\ (lastSample' = "far" => probableBlankFrameCount' = 0)
         /\ (lastSample' \notin {"near", "far"} =>
               probableBlankFrameCount' = probableBlankFrameCount)
         /\ (TriggeredNext <=> (lastSample' = "near" /\ streak' = BlankFrameThreshold))
         /\ (~autoFallbackAttempted' => streak' < BlankFrameThreshold)]_vars

C6_Witness ==
    /\ pc = "fallback_reinit"
    /\ streak = BlankFrameThreshold
    /\ lastSample = "near"
    /\ frameCounter_ > BlankFrameThreshold

\* C7 (as stated): the fallback is never triggered with a non-empty
\* ENGINE_RENDERER, with Software active or on a frame numbered 180 or
\* more, and every iteration with ENGINE_RENDERER unset or empty, a
\* hardware backend active and a frame number below 180 takes a sample.
C7_Original ==
    [][IterationStep =>
         /\ (TriggeredNext =>
               /\ AutoDetect
               /\ renderer_ \notin {"None", "Software"}
               /\ frameCounter_ < SampleFrameWindow)
         /\ ((/\ AutoDetect
              /\ renderer_ \in {"DirectX 12", "DirectX 12 Native", "Vulkan"}
              /\ frameCounter_ < SampleFrameWindow) => SampledNext)]_vars

\* C7 (amended): an iteration takes a sample exactly when ENGINE_RENDERER is
\* unset or empty, an SDL-based hardware backend (DirectX 12 or Vulkan, not
\* the native DX12 renderer) is active, the frame number is below 180 and
\* the frame's UI draw data has geometry; the fallback is triggered only by
\* an iteration that takes a sample.
C7_LiveFallbackEnabled ==
    [][IterationStep =>
         /\ (SampledNext <=>
               /\ AutoDetect
               /\ renderer_ \in {"DirectX 12", "Vulkan"}
               /\ frameCounter_ < SampleFrameWindow
               /\ lastSample' # "no_ui")
         /\ (TriggeredNext => SampledNext)]_vars

C7_Witness ==
    /\ AutoDetect
    /\ renderer_ = "Vulkan"
    /\ frameCounter_ = SampleFrameWindow
    /\ lastSample = "far"

\* C8: when the Software renderer of the live fallback, or the UI backend
\* on it, fails to initialize, exit is requested and the only thing Run
\* does afterwards is leave the loop and shut down: no further frame is
\* begun, drawn or ended.
C8_FallbackFailureEndsSession ==
    [][/\ (FallbackFailed' => ~running_' /\ pc' \in {"loop", "done"})
       /\ (FallbackFailed =>
             /\ pc = "loop" /\ pc' = "done"
             /\ frameCounter_' = frameCounter_
             /\ frameOpen' = frameOpen
             /\ renderer_' = "None" /\ live' = {} /\ ~imguiInitialized_')]_vars

C8_Witness ==
    /\ fallbackResult = "imgui_failed"
    /\ pc = "done"
    /\ renderer_ = "None"
    /\ live = {}

\* C9: at every point of startup selection and live fallback at most one
\* renderer instance is initialized and not shut down, it is the active
\* one, and none is when Initialize is about to be called on the next.
C9_SingleOwner ==
    /\ Cardinality(live) <= 1
    /\ (renderer_ # "None" => live = {renderer_})
    /\ (renderer_ = "None" => live = {})
    /\ (pc \in {"try_backend", "fallback_reinit"} => live = {})

C9_Witness ==
    /\ fallbackResult = "switched"
    /\ live = {"Software"}
    /\ attempts = <<[backend |-> "Dx12", ok |-> FALSE], [backend |-> "Vulkan", ok |-> TRUE]>>

\* C10: every BeginFrame is followed by an EndFrame on the same renderer
\* before the next BeginFrame or that renderer's Shutdown, the frame in
\* which the live fallback is triggered included: no iteration leaves a
\* frame begun and not ended.
C10_FramesPaired == frameOpen = "None"

-----------------------------------------------------------------------------
(* NativeDx12Renderer.cpp: the shader-visible descriptor pool *)

\* Free-list entries explored (srvFreeList is a vector that Free only grows).
MaxFreeListLen == 2

\* AllocateSrvDescriptor lines 1394-1398: the handle of a slot
HandleFor(descriptorIndex) == HandleAt(0, descriptorIndex, 0)

\* FreeSrvDescriptor lines 1409-1415: the range test the code performs, on
\* the quotient cast to UINT (handle.index is its low 32 bits)
InRange(handle) ==
    handle.kind = "at" /\ handle.index < kSrvDescriptorCount

\* AllocateSrvDescriptor: [ok, index, next, freeList]
AllocateSrvDescriptorEarlyFull(heap, size, next, freeList) ==
    IF ~heap \/ size = 0
    THEN [ok |-> FALSE, index |-> 0, next |-> next, freeList |-> freeList]
    ELSE IF freeList # <<>>
    THEN [ok |-> TRUE, index |-> freeList[Len(freeList)], next |-> next,
          freeList |-> SubSeq(freeList, 1, Len(freeList) - 1)]
    ELSE IF next + 1 >= kSrvDescriptorCount
    THEN [ok |-> FALSE, index |-> 0, next |-> next, freeList |-> freeList]
    ELSE [ok |-> TRUE, index |-> next, next |-> next + 1, freeList |-> freeList]

AllocateSrvDescriptorFifo(heap, size, next, freeList) ==
    IF ~heap \/ size = 0
    THEN [ok |-> FALSE, index |-> 0, next |-> next, freeList |-> freeList]
    ELSE IF freeList # <<>>
    THEN [ok |-> TRUE, index |-> freeList[1], next |-> next, freeList |-> Tail(freeList)]
    ELSE IF next >= kSrvDescriptorCount
    THEN [ok |-> FALSE, index |-> 0, next |-> next, freeList |-> freeList]
    ELSE [ok |-> TRUE, index |-> next, next |-> next + 1, freeList |-> freeList]

AllocateSrvDescriptorCapacityFirst(heap, size, next, freeList) ==
    IF ~heap \/ size = 0
    THEN [ok |-> FALSE, index |-> 0, next |-> next, freeList |-> freeList]
    ELSE IF next >= kSrvDescriptorCount
    THEN [ok |-> FALSE, index |-> 0, next |-> next, freeList |-> freeList]
    ELSE IF freeList # <<>>
    THEN [ok |-> TRUE, index |-> freeList[Len(freeList)], next |-> next,
          freeList |-> SubSeq(freeList, 1, Len(freeList) - 1)]
    ELSE [ok |-> TRUE, index |-> next, next |-> next + 1, freeList |-> freeList]

AllocateSrvDescriptor(heap, size, next, freeList) ==
    IF ~heap \/ size = 0
    THEN [ok |-> FALSE, index |-> 0, next |-> next, freeList |-> freeList]
    ELSE IF freeList # <<>>
    THEN [ok |-> TRUE, index |-> freeList[Len(freeList)], next |-> next,
          freeList |-> SubSeq(freeList, 1, Len(freeList) - 1)]
    ELSE IF next >= kSrvDescriptorCount
    THEN [ok |-> FALSE, index |-> 0, next |-> next, freeList |-> freeList]
    ELSE [ok |-> TRUE, index |-> next, next |-> next + 1, freeList |-> freeList]

\* FreeSrvDescriptor: [pushed, index, freeList].  Line 1414 casts the
\* quotient offset / srvDescriptorSize to UINT, which keeps its low 32 bits.
FreeSrvDescriptor(heap, size, freeList, handle) ==
    IF ~heap \/ size = 0 \/ handle.kind = "null"
    THEN [pushed |-> FALSE, index |-> 0, freeList |-> freeList]
    ELSE IF handle.kind = "below"
    THEN [pushed |-> FALSE, index |-> 0, freeList |-> freeList]
    ELSE LET descriptorIndex == handle.index
         IN  IF InRange(handle)
             THEN [pushed |-> TRUE, index |-> descriptorIndex,
                   freeList |-> Append(freeList, descriptorIndex)]
             ELSE [pushed |-> FALSE, index |-> descriptorIndex, freeList |-> freeList]

\* descriptor increment sizes the device may report (line 1242)
DescriptorSizes == {1, 32}

\* handles a caller may pass to FreeSrvDescriptor
FreeHandles(size) ==
    {NullHandle, BelowHeapHandle}
    \cup {HandleFor(i) : i \in {0, 1, kSrvDescriptorCount - 1, kSrvDescriptorCount}}
    \cup {HandleAt(1, 0, 0)}
    \cup {HandleAt(0, 1, rem) : rem \in {r \in {1} : r < size}}

\* The application is not running: the renderer is driven through its own
\* interface.
AppAbsent ==
    /\ pc = "done"
    /\ envRenderer = [set |-> FALSE, value |-> <<>>]
    /\ running_ = FALSE
    /\ frameCounter_ = 0
    /\ renderer_ = "None"
    /\ statusMessage_ = <<>>
    /\ imguiInitialized_ = FALSE
    /\ useNativeDx12ImGui_ = FALSE
    /\ loadedModelValid = FALSE
    /\ sdlInitialized_ = FALSE
    /\ window_ = FALSE
    /\ nfdInitialized_ = FALSE
    /\ requestedBackend = "nullopt"
    /\ preferNativeDx12 = FALSE
    /\ backendOrder = <<>>
    /\ orderIndex = 1
    /\ dx12Error = <<>>
    /\ vulkanError = <<>>
    /\ softwareError = <<>>
    /\ autoFallbackAttempted = FALSE
    /\ probableBlankFrameCount = 0
    /\ live = {}
    /\ frameOpen = "None"
    /\ attempts = <<>>
    /\ lastSample = "none"
    /\ streak = 0
    /\ fallbackCount = 0
    /\ fallbackResult = "none"
    /\ overlayLog = <<>>

\* Impl::Initialize lines 1242-1244 on a created heap
PoolInitialized(size) ==
    /\ srvHeap = TRUE
    /\ srvDescriptorSize = size
    /\ srvNextFreeIndex = 1
    /\ srvFreeList = <<>>

InitPool ==
    /\ AppAbsent
    /\ RendererConstructed
    /\ \E size \in DescriptorSizes : PoolInitialized(size)
    /\ holders = [slot \in 0..(kSrvDescriptorCount - 1) |-> 0]
    /\ poolLastOp = NoPoolOp
    /\ freshAllocs = 0
    /\ freshOks = 0

\* history: calls counted up to one past the capacity
CountCall(count, hit) ==
    IF count < 0 THEN count
    ELSE IF count > kSrvDescriptorCount THEN count
    ELSE IF hit THEN count + 1 ELSE count

\* A client calls NativeDx12Renderer::AllocateSrvDescriptor and keeps the handle
PoolAllocate ==
    /\ LET r == AllocateSrvDescriptor(srvHeap, srvDescriptorSize, srvNextFreeIndex, srvFreeList)
       IN  /\ srvNextFreeIndex' = r.next
           /\ srvFreeList' = r.freeList
           /\ holders' = IF r.ok THEN [holders EXCEPT ![r.index] = @ + 1] ELSE holders
           /\ poolLastOp' = [op |-> "alloc", ok |-> r.ok, index |-> r.index,
                             pushed |-> FALSE, handle |-> IF r.ok THEN HandleFor(r.index) ELSE NullHandle]
           /\ freshAllocs' = CountCall(freshAllocs, TRUE)
           /\ freshOks' = CountCall(freshOks, r.ok)
    /\ UNCHANGED <<appVars, srvHeap, srvDescriptorSize>>
    /\ UNCHANGED <<rendererKind, rPhase, frameVars, recSlots, hazard, cacheVars, lastDraw,
                   callVars>>

\* A client calls NativeDx12Renderer::FreeSrvDescriptor with some handle
PoolFree ==
    /\ Len(srvFreeList) < MaxFreeListLen
    /\ \E handle \in FreeHandles(srvDescriptorSize) :
         LET r == FreeSrvDescriptor(srvHeap, srvDescriptorSize, srvFreeList, handle)
         IN  /\ srvFreeList' = r.freeList
             /\ holders' = IF r.pushed /\ holders[r.index] > 0
                           THEN [holders EXCEPT ![r.index] = @ - 1] ELSE holders
             /\ poolLastOp' = [op |-> "free", ok |-> TRUE, index |-> r.index,
                               pushed |-> r.pushed, handle |-> handle]
    /\ freshAllocs' = -1
    /\ freshOks' = -1
    /\ UNCHANGED <<appVars, srvHeap, srvDescriptorSize, srvNextFreeIndex>>
    /\ UNCHANGED <<rendererKind, rPhase, frameVars, recSlots, hazard, cacheVars, lastDraw,
                   callVars>>

NextPool ==
    \/ PoolAllocate
    \/ PoolFree

SpecPool == InitPool /\ [][NextPool]_vars

-----------------------------------------------------------------------------
(* Properties of the descriptor pool *)

Slots == 0..(kSrvDescriptorCount - 1)
HeldSlots == {slot \in Slots : holders[slot] > 0}
\* the step is a call of AllocateSrvDescriptor / FreeSrvDescriptor
AllocStep == poolLastOp'.op = "alloc" /\ poolVars' # poolVars
FreeStep == poolLastOp'.op = "free" /\ poolVars' # poolVars
InFreeList(slot) == \E i \in 1..Len(srvFreeList) : srvFreeList[i] = slot
\* the handle is the address of one of the heap's 64 descriptors
InsideHeap(handle) ==
    handle.kind = "at" /\ handle.wraps = 0 /\ handle.index < kSrvDescriptorCount

\* C12: after any sequence of AllocateSrvDescriptor and FreeSrvDescriptor
\* calls no slot is held as valid by two resources at the same time.
\* FreeSrvDescriptor pushes every index below 64 it is given, held or not,
\* so a handle freed twice is handed to two later Allocate calls.
C12_Original == \A slot \in Slots : holders[slot] <= 1

\* C13 (as stated): on a fresh pool N <= 64 allocations with no free in
\* between all succeed and give N distinct slots.
C13_Original ==
    (freshAllocs >= 0 /\ freshAllocs <= kSrvDescriptorCount) =>
        /\ freshOks = freshAllocs
        /\ Cardinality(HeldSlots) = freshAllocs
        /\ \A slot \in Slots : holders[slot] <= 1

\* C13 (amended): on a fresh pool N <= 63 allocations with no free in
\* between all succeed and give N distinct slots; slot 0 is never one of
\* them.
C13_FreshAllocations ==
    (freshAllocs >= 0 /\ freshAllocs <= kSrvDescriptorCount - 1) =>
        /\ freshOks = freshAllocs
        /\ Cardinality(HeldSlots) = freshAllocs
        /\ \A slot \in Slots : holders[slot] <= 1
        /\ holders[0] = 0

C13_Witness ==
    /\ freshAllocs = kSrvDescriptorCount - 1
    /\ freshOks = kSrvDescriptorCount - 1
    /\ Cardinality(HeldSlots) = kSrvDescriptorCount - 1

\* C14: Allocate takes the most recently freed slot before it advances the
\* high-water mark: right after a Free that pushed h it returns h and
\* leaves the mark alone, and the mark moves only when the free list is
\* empty.
C14_LifoReuse ==
    [][AllocStep =>
         /\ (poolLastOp.op = "free" /\ poolLastOp.pushed =>
               /\ poolLastOp'.ok
               /\ poolLastOp'.index = poolLastOp.index
               /\ srvNextFreeIndex' = srvNextFreeIndex)
         /\ (srvFreeList # <<>> =>
               /\ poolLastOp'.ok
               /\ poolLastOp'.index = srvFreeList[Len(srvFreeList)]
               /\ srvFreeList' = SubSeq(srvFreeList, 1, Len(srvFreeList) - 1)
               /\ srvNextFreeIndex' = srvNextFreeIndex)
         /\ (srvNextFreeIndex' # srvNextFreeIndex =>
               srvFreeList = <<>> /\ srvNextFreeIndex' = srvNextFreeIndex + 1)]_vars

C14_Witness ==
    /\ poolLastOp.op = "alloc" /\ poolLastOp.ok
    /\ poolLastOp.index = kSrvDescriptorCount - 1
    /\ srvFreeList = <<1>>
    /\ srvNextFreeIndex = kSrvDescriptorCount

\* C15: Allocate fails exactly when the free list is empty and the
\* high-water mark has reached 64; a failed Allocate changes neither, and
\* Allocate never fails while the free list holds a slot.
C15_Exhaustion ==
    [][AllocStep =>
         /\ (~poolLastOp'.ok <=>
               (srvFreeList = <<>> /\ srvNextFreeIndex >= kSrvDescriptorCount))
         /\ (~poolLastOp'.ok =>
               srvFreeList' = srvFreeList /\ srvNextFreeIndex' = srvNextFreeIndex)]_vars

C15_Witness ==
    /\ poolLastOp.op = "alloc" /\ ~poolLastOp.ok
    /\ srvFreeList = <<>>
    /\ srvNextFreeIndex = kSrvDescriptorCount
    /\ Cardinality(HeldSlots) = kSrvDescriptorCount - 1

\* C16: Free with a handle outside the pool's address range (null, below
\* the heap start, or at an index of 64 or more) changes neither the free
\* list nor the high-water mark; with a handle inside the range it pushes
\* the handle's slot onto the free list.
C16_FreeOutOfRange ==
    [][FreeStep =>
         /\ srvNextFreeIndex' = srvNextFreeIndex
         /\ IF InsideHeap(poolLastOp'.handle)
            THEN srvFreeList' = Append(srvFreeList, poolLastOp'.handle.index)
            ELSE srvFreeList' = srvFreeList]_vars

\* C35: the slot reserved for the UI font, index 0 of the descriptor heap,
\* is never returned by AllocateSrvDescriptor, after any sequence of
\* Allocate and Free calls
C35_FontSlotReserved ==
    (poolLastOp.op = "alloc" /\ poolLastOp.ok) => poolLastOp.index # 0

-----------------------------------------------------------------------------
(* NativeDx12Renderer.cpp: frame scheduler and model texture cache *)

\* BeginFrame calls explored on one renderer (nextFenceValue only grows).
MaxRenderFrames == 3

\* NativeDx12Renderer::WaitForGpuIdle and, outside a frame,
\* RenderModelWireframe are called while nextFenceValue is below this value
MaxIdleFenceValue == 3

\* RenderModelWireframe of the native renderer, and of the SDL renderer
\* outside a frame, is called while fewer textures than this have been created
MaxTexturesCreated == 3

\* ModelData as RenderModelWireframe reads it.  opacity and alphaCutoff are
\* in thousandths.  Every submesh has indexCount >= 3 and one triangle whose
\* vertices project inside the clip volume; the model is valid.
Submesh(textureIndex, opacityTextureIndex, opacity) ==
    [textureIndex |-> textureIndex, opacityTextureIndex |-> opacityTextureIndex,
     opacity |-> opacity, alphaCutoff |-> 500, alphaCutoutEnabled |-> FALSE,
     opacityTextureInverted |-> FALSE, isTransparent |-> FALSE]

Models ==
    { [texturePaths |-> <<>>, hasTexCoords |-> FALSE, submeshes |-> <<>>],
      [texturePaths |-> <<"a.png">>, hasTexCoords |-> TRUE,
       submeshes |-> <<Submesh(0, -1, 1000)>>],
      [texturePaths |-> <<"a.png", "b.png">>, hasTexCoords |-> TRUE,
       submeshes |-> <<Submesh(0, -1, 1000), Submesh(1, -1, 500)>>] }

\* a cached texture: resource / SDL_Texture non-null, SDL_Surface non-null,
\* the descriptor handle (descriptor: srvCpuDescriptor.ptr != 0, slot: the
\* index of the handle in the heap), identity of the resource
CachedTexture(path, texture, surface, handle, id) ==
    [path |-> path, texture |-> texture, surface |-> surface,
     descriptor |-> handle.kind # "null", slot |-> handle.index, id |-> id]

\* work on the command queue
Commands(frame, allocator, slots) ==
    [kind |-> "commands", frame |-> frame, allocator |-> allocator, slots |-> slots, value |-> 0]
Signal(value) ==
    [kind |-> "signal", frame |-> 0, allocator |-> 0, slots |-> {}, value |-> value]

\* in-flight work that refers to a descriptor slot
InFlightSlots(queue) ==
    UNION {queue[i].slots : i \in 1..Len(queue)}

\* Shutdown calls followed on one renderer
MaxShutdowns == 2

\* a resource member of the renderer, and a texture of one of its caches
Member(name) == [kind |-> name, id |-> 0]
TextureResource(id) == [kind |-> "texture", id |-> id]
SurfaceResource(id) == [kind |-> "surface", id |-> id]

\* Impl::Initialize lines 1112-1267: its steps in order; a failing step
\* returns false and leaves the members that the earlier ones have set.
\* "baseSwapChain" is CreateSwapChainForHwnd into the local ComPtr of line
\* 1150, "windowAssociation" is MakeWindowAssociation, "swapChain" is the
\* query of line 1163 that sets the member
NativeAcquisitions ==
    <<"factory", "device", "commandQueue", "baseSwapChain", "windowAssociation",
      "swapChain", "rtvHeap", "dsvHeap",
      "backBuffer0", "commandAllocator0", "backBuffer1", "commandAllocator1",
      "depthStencilBuffer", "commandList", "srvHeap", "fence", "fenceEvent",
      "wireRootSignature", "wirePipelineState", "texturedRootSignature",
      "texturedOpaquePipelineState", "texturedTransparentPipelineState">>

\* Impl::Shutdown lines 1310-1361: the members in the order Shutdown
\* visits them
NativeReleaseOrder ==
    <<"backBuffer0", "commandAllocator0", "backBuffer1", "commandAllocator1",
      "fenceEvent", "fence", "srvHeap", "dsvHeap", "rtvHeap", "wireVertexBuffer",
      "texturedVertexBuffer", "depthStencilBuffer", "texturedTransparentPipelineState",
      "texturedOpaquePipelineState", "texturedRootSignature", "wirePipelineState",
      "wireRootSignature", "commandList", "swapChain", "commandQueue", "device",
      "factory", "com">>

\* SdlRendererBase::Shutdown lines 256-265
SdlReleaseOrder == <<"renderer", "com">>

\* the steps of Impl::Initialize that set no member
LocalSteps == {"baseSwapChain", "windowAssociation"}

\* Impl::Initialize: [ok, owned, released] when the first `acquired` steps
\* succeed; com: CoInitializeEx succeeded (line 1109).  A return between
\* lines 1151 and 1166 destroys the swap chain that only the local
\* baseSwapChain refers to.
ImplInitialize(acquired, com) ==
    LET done == {NativeAcquisitions[i] : i \in 1..acquired}
    IN  [ok |-> acquired = Len(NativeAcquisitions),
         owned |-> {Member(name) : name \in done \ LocalSteps}
                   \cup (IF com THEN {Member("com")} ELSE {}),
         released |-> IF "baseSwapChain" \in done /\ "swapChain" \notin done
                      THEN <<Member("swapChain")>> ELSE <<>>]

\* SdlRendererBase::Initialize lines 203-249: [ok, owned, released].  The
\* renderer created before a failing RenderGeometry probe is destroyed and
\* renderer_ set to nullptr before Initialize returns.
SdlRendererInitialize(step, com) ==
    IF step = "ok"
    THEN [ok |-> TRUE,
          owned |-> {Member("renderer")} \cup (IF com THEN {Member("com")} ELSE {}),
          released |-> <<>>]
    ELSE [ok |-> FALSE, owned |-> {},
          released |-> IF step = "geometry" THEN <<Member("renderer")>> ELSE <<>>]

\* a release without its null test
ReleaseMembersUnguarded(held, order) ==
    [i \in 1..Len(order) |-> Member(order[i])]

\* `if (p) { destroy(p); p = nullptr; }` and ComPtr::Reset over the members
\* in `order`: the resources handed back, in order
ReleaseMembers(held, order) ==
    LET IsHeld(name) == Member(name) \in held
        names == SelectSeq(order, IsHeld)
    IN  [i \in 1..Len(names) |-> Member(names[i])]

\* ReleaseModelTextures (NativeDx12Renderer.cpp lines 857-870,
\* SdlRendererBase.cpp lines 614-629): the textures handed back, in order,
\* and after them the surfaces
ReleaseCachedTextures(textures) ==
    LET HasTexture(t) == t.texture
        HasSurface(t) == t.surface
        ts == SelectSeq(textures, HasTexture)
        ss == SelectSeq(textures, HasSurface)
    IN  [i \in 1..Len(ts) |-> TextureResource(ts[i].id)]
        \o [i \in 1..Len(ss) |-> SurfaceResource(ss[i].id)]

\* ReleaseComposedTextures (SdlRendererBase.cpp lines 604-612)

ReleaseComposed(composed) ==
    [i \in 1..Len(composed) |-> TextureResource(composed[i].texture)]

SeqToSet(q) == {q[i] : i \in 1..Len(q)}

\* the test in front of a blocking wait (lines 1423 and 1371): the call goes
\* into WaitForSingleObject when the fence has not reached `value`.
\* [waits, value]
WaitForFenceSkipped(completed, value) == [waits |-> FALSE, value |-> value]

WaitForFence(completed, value) == [waits |-> completed < value, value |-> value]

\* the device completes the n oldest items of the command queue: [queue,
\* completed]
RECURSIVE GpuCompletes(_, _, _)
GpuCompletes(queue, completed, n) ==
    IF n = 0 \/ queue = <<>> THEN [queue |-> queue, completed |-> completed]
    ELSE GpuCompletes(Tail(queue),
                      IF Head(queue).kind = "signal" THEN Head(queue).value ELSE completed,
                      n - 1)

\* the items the device may have completed between the Signal of line 1370
\* and the GetCompletedValue of line 1371
DeviceProgress(ready, queue) == IF ready THEN 0..(Len(queue) + 1) ELSE {0}

\* Impl::WaitForGpuIdle lines 1365-1372, up to its blocking wait: [queue,
\* completed, next, waits, value]; ready: the command queue, the fence and
\* the event exist; done: the items of the queue the device has completed
\* when line 1371 reads the fence
WaitForGpuIdleNoWait(ready, queue, completed, next, done) ==
    IF ~ready
    THEN [queue |-> queue, completed |-> completed, next |-> next, waits |-> FALSE,
          value |-> 0]
    ELSE LET g == GpuCompletes(Append(queue, Signal(next)), completed, done)
         IN  [queue |-> g.queue, completed |-> g.completed, next |-> next + 1,
              waits |-> FALSE, value |-> next]

\* WaitForGpuIdle that waits for the value after the one it signalled
WaitForGpuIdleAhead(ready, queue, completed, next, done) ==
    IF ~ready
    THEN [queue |-> queue, completed |-> completed, next |-> next, waits |-> FALSE,
          value |-> 0]
    ELSE LET g == GpuCompletes(Append(queue, Signal(next)), completed, done)
             w == WaitForFence(g.completed, next + 1)
         IN  [queue |-> g.queue, completed |-> g.completed, next |-> next + 1,
              waits |-> w.waits, value |-> w.value]

\* WaitForGpuIdle that signals nextFenceValue without advancing it
WaitForGpuIdleSameValue(ready, queue, completed, next, done) ==
    IF ~ready
    THEN [queue |-> queue, completed |-> completed, next |-> next, waits |-> FALSE,
          value |-> 0]
    ELSE LET g == GpuCompletes(Append(queue, Signal(next)), completed, done)
             w == WaitForFence(g.completed, next)
         IN  [queue |-> g.queue, completed |-> g.completed, next |-> next,
              waits |-> w.waits, value |-> w.value]

WaitForGpuIdle(ready, queue, completed, next, done) ==
    IF ~ready
    THEN [queue |-> queue, completed |-> completed, next |-> next, waits |-> FALSE,
          value |-> 0]
    ELSE LET g == GpuCompletes(Append(queue, Signal(next)), completed, done)
             w == WaitForFence(g.completed, next)
         IN  [queue |-> g.queue, completed |-> g.completed, next |-> next + 1,
              waits |-> w.waits, value |-> w.value]

\* WaitForGpuIdle line 1365: the command queue, the fence and the event exist
GpuReady(held) ==
    {Member("commandQueue"), Member("fence"), Member("fenceEvent")} \subseteq held

\* an entry of the device log.  e: "signal" (commandQueue->Signal of value),
\* "wait" (WaitForSingleObject on value), "idle" (WaitForGpuIdle returned
\* after its wait), "submit" (ExecuteCommandLists), "release"
\* (ReleaseModelTextures of `value` cached textures); slot: the frame slot
DeviceEvent(e, value, by, slot) == [e |-> e, value |-> value, by |-> by, slot |-> slot]

\* the fence values signalled by the events of one call
SignalValues(events) ==
    {events[i].value : i \in {k \in 1..Len(events) : events[k].e = "signal"}}

\* BeginFrame lines 1423-1426: the blocking wait, when there is one
BeginFrameEvents(completed, value) ==
    IF WaitForFence(completed, value).waits
    THEN <<DeviceEvent("wait", value, "BeginFrame", 0)>> ELSE <<>>

\* WaitForGpuIdle lines 1369-1373: the Signal and the blocking wait; w: what
\* WaitForGpuIdle did, next: nextFenceValue at the call
SignalEvents(ready, w, next) ==
    IF ~ready THEN <<>>
    ELSE <<DeviceEvent("signal", next, "WaitForGpuIdle", 0)>>
         \o (IF w.waits THEN <<DeviceEvent("wait", w.value, "WaitForGpuIdle", 0)>> ELSE <<>>)

\* WaitForGpuIdle line 1375: it returns, after the wait if there was one
IdleEvents(ready, value) ==
    IF ~ready THEN <<>> ELSE <<DeviceEvent("idle", value, "WaitForGpuIdle", 0)>>

\* EndFrame lines 1479-1488
EndFrameEvents(slot, next) ==
    <<DeviceEvent("submit", 0, "EndFrame", slot), DeviceEvent("signal", next, "EndFrame", slot)>>

\* Impl::ReleaseModelTextures, the pool side: the free list after the
\* descriptor of every cached texture has been freed, in order
RECURSIVE FreeTextureSlots(_, _, _, _)
FreeTextureSlots(heap, size, freeList, textures) ==
    IF textures = <<>> THEN freeList
    ELSE LET t == Head(textures)
             after == IF t.descriptor
                      THEN FreeSrvDescriptor(heap, size, freeList, HandleFor(t.slot)).freeList
                      ELSE freeList
         IN  FreeTextureSlots(heap, size, after, Tail(textures))

TextureSlots(textures) ==
    {textures[i].slot : i \in {k \in 1..Len(textures) : textures[k].descriptor}}

\* the texture cache test of EnsureModelTexturesUploaded line 883 and of
\* UpdateModelTextures line 460
CacheIsCurrentNever(cachedPaths, textures, modelPaths) == FALSE

CacheIsCurrent(cachedPaths, textures, modelPaths) ==
    cachedPaths = modelPaths /\ Len(textures) = Len(modelPaths)

\* a call that fails for one texture file: "decode" (DecodeImageWithWic,
\* line 895), "texture" (CreateCommittedResource for the texture, 927-937),
\* "upload" (CreateCommittedResource for the upload buffer, 962-972), "map"
\* (Map of the upload buffer, 977-981)
Failure(call, path) == [call |-> call, path |-> path]

\* the failures of one run of the upload loop: none, or one call for one file
UploadFailures ==
    {{}} \cup {{Failure(call, path)} : call \in {"decode", "texture", "upload", "map"},
                                     path \in {"a.png", "b.png"}}

\* the calls on the vertex buffers that fail during one RenderModelWireframe,
\* none or one of:
\* CreateCommittedResource in EnsureTexturedVertexBuffer (836-846) and in
\* EnsureWireVertexBuffer (788-798), Map of either buffer (1667, 1734)
BufferFailures ==
    {{}} \cup {{call} : call \in {"texturedVertexBuffer", "texturedMap", "wireVertexBuffer",
                                  "wireMap"}}

\* EnsureModelTexturesUploaded lines 893-1028: the loop over the model's
\* texture paths from position i on.  c: [paths, textures, next, freeList,
\* created, allocated, decodeFailed, ok]
RECURSIVE UploadTextures(_, _, _, _, _, _)
UploadTextures(heap, size, modelPaths, i, failing, c) ==
    IF i > Len(modelPaths) THEN c
    ELSE IF Failure("decode", modelPaths[i]) \in failing
    THEN [c EXCEPT !.ok = FALSE, !.decodeFailed = TRUE]
    ELSE IF Failure("texture", modelPaths[i]) \in failing
    THEN [c EXCEPT !.paths = Append(c.paths, modelPaths[i]),
                   !.textures = Append(c.textures,
                                       CachedTexture(modelPaths[i], FALSE, FALSE, NullHandle, 0)),
                   !.ok = FALSE]
    ELSE IF Failure("upload", modelPaths[i]) \in failing
            \/ Failure("map", modelPaths[i]) \in failing
    THEN [c EXCEPT !.paths = Append(c.paths, modelPaths[i]),
                   !.textures = Append(c.textures,
                                       CachedTexture(modelPaths[i], TRUE, FALSE, NullHandle,
                                                     c.created + 1)),
                   !.created = c.created + 1,
                   !.ok = FALSE]
    ELSE LET alloc == AllocateSrvDescriptor(heap, size, c.next, c.freeList)
             entry == CachedTexture(modelPaths[i], TRUE, FALSE,
                                    IF alloc.ok THEN HandleFor(alloc.index) ELSE NullHandle,
                                    c.created + 1)
             c2 == [c EXCEPT !.paths = Append(c.paths, modelPaths[i]),
                             !.textures = Append(c.textures, entry),
                             !.next = alloc.next,
                             !.freeList = alloc.freeList,
                             !.created = c.created + 1,
                             !.allocated = IF alloc.ok THEN c.allocated \cup {alloc.index}
                                           ELSE c.allocated]
         IN  IF ~alloc.ok THEN [c2 EXCEPT !.ok = FALSE]
             ELSE UploadTextures(heap, size, modelPaths, i + 1, failing, c2)

\* EnsureModelTexturesUploaded lines 878-887: "release" (no texture paths or
\* no texCoords), "current" (the cache holds the model's textures) or
\* "upload" (WaitForGpuIdle is called and the textures are loaded)
EnsureBranch(cache, model) ==
    IF model.texturePaths = <<>> \/ ~model.hasTexCoords THEN "release"
    ELSE IF CacheIsCurrent(cache.paths, cache.textures, model.texturePaths) THEN "current"
    ELSE "upload"

\* EnsureModelTexturesUploaded that releases the cache without the idle wait
EnsureEventsNoIdle(ready, cache, value, model) ==
    IF EnsureBranch(cache, model) = "current" THEN <<>>
    ELSE <<DeviceEvent("release", Len(cache.textures), "EnsureModelTexturesUploaded", 0)>>

\* EnsureModelTexturesUploaded lines 874-888: what it does to the cache once
\* the WaitForGpuIdle of line 887, which signalled `value`, has returned
EnsureEvents(ready, cache, value, model) ==
    IF EnsureBranch(cache, model) = "current" THEN <<>>
    ELSE IF EnsureBranch(cache, model) = "release"
    THEN <<DeviceEvent("release", Len(cache.textures), "EnsureModelTexturesUploaded", 0)>>
    ELSE IdleEvents(ready, value)
         \o <<DeviceEvent("release", Len(cache.textures), "EnsureModelTexturesUploaded", 0)>>

\* the texture cache as EnsureModelTexturesUploaded leaves it when it has not
\* been called or returns at line 884
CacheKept(cache) ==
    [paths |-> cache.paths, textures |-> cache.textures, next |-> cache.next,
     freeList |-> cache.freeList, created |-> cache.created, allocated |-> {},
     decodeFailed |-> FALSE, ok |-> TRUE]

\* RenderModelWireframe line 1553 with canRenderTextured false:
\* EnsureModelTexturesUploaded is not called
EnsureNotCalled(cache) ==
    [ok |-> FALSE, refresh |-> "none", decodeFailed |-> FALSE, cache |-> CacheKept(cache),
     freed |-> {}, released |-> <<>>]

\* Impl::EnsureModelTexturesUploaded for a valid model, the WaitForGpuIdle of
\* line 887 apart.  cache: [paths, textures, next, freeList, created].  The
\* result: ok (the return value), refresh, decodeFailed, the cache, the
\* descriptor slots freed and the resources handed back
EnsureModelTexturesUploaded(heap, size, cache, model, failing) ==
    LET released == [paths |-> <<>>, textures |-> <<>>, next |-> cache.next,
                     freeList |-> FreeTextureSlots(heap, size, cache.freeList, cache.textures),
                     created |-> cache.created, allocated |-> {}, decodeFailed |-> FALSE,
                     ok |-> TRUE]
    IN  IF EnsureBranch(cache, model) = "release"
        THEN [ok |-> FALSE, refresh |-> "released", decodeFailed |-> FALSE,
              cache |-> released, freed |-> TextureSlots(cache.textures),
              released |-> ReleaseCachedTextures(cache.textures)]
        ELSE IF EnsureBranch(cache, model) = "current"
        THEN [ok |-> TRUE, refresh |-> "noop", decodeFailed |-> FALSE,
              cache |-> CacheKept(cache), freed |-> {}, released |-> <<>>]
        ELSE LET c == UploadTextures(heap, size, model.texturePaths, 1, failing, released)
             IN  [ok |-> c.ok /\ c.textures # <<>>,
                  refresh |-> IF c.ok THEN "ok" ELSE "failed",
                  decodeFailed |-> c.decodeFailed,
                  cache |-> c,
                  freed |-> TextureSlots(cache.textures),
                  released |-> ReleaseCachedTextures(cache.textures)]

\* Impl::RenderModelWireframe lines 1567-1636: the submeshes that give
\* textured triangles, and the descriptor slots their draws refer to
NativeTexturedSubmeshes(model, textures) ==
    {i \in 1..Len(model.submeshes) :
        /\ model.submeshes[i].textureIndex >= 0
        /\ model.submeshes[i].textureIndex < Len(textures)
        /\ textures[model.submeshes[i].textureIndex + 1].descriptor}

NativeDrawSlots(model, textures, drawn) ==
    UNION {LET sm == model.submeshes[i]
               color == textures[sm.textureIndex + 1].slot
               opacity == IF /\ sm.opacityTextureIndex >= 0
                             /\ sm.opacityTextureIndex < Len(textures)
                             /\ textures[sm.opacityTextureIndex + 1].descriptor
                          THEN textures[sm.opacityTextureIndex + 1].slot
                          ELSE color
           IN  {color, opacity} : i \in drawn}

\* EnsureWireVertexBuffer / EnsureTexturedVertexBuffer: [ok, owned].  A
\* buffer that exists holds 8192 vertices or more (lines 770 and 818), more
\* than a mesh of Models needs, so the device is asked for one only when
\* there is none
EnsureVertexBuffer(name, held, failures) ==
    IF Member(name) \in held THEN [ok |-> TRUE, owned |-> held]
    ELSE IF name \in failures THEN [ok |-> FALSE, owned |-> held]
    ELSE [ok |-> TRUE, owned |-> held \cup {Member(name)}]

\* Impl::RenderModelWireframe lines 1556-1750, EnsureModelTexturesUploaded
\* having returned ensured: [textured, wire, owned], the submeshes drawn
\* textured, whether the wireframe was drawn, and the members held.  Every
\* mesh of Models has line vertices.
RenderPasses(model, wireOverlayEnabled, textures, ensured, held, failures) ==
    LET triangles == IF ensured THEN NativeTexturedSubmeshes(model, textures) ELSE {}
        tb == IF triangles # {}
              THEN EnsureVertexBuffer("texturedVertexBuffer", held, failures)
              ELSE [ok |-> TRUE, owned |-> held]
        kept == IF tb.ok THEN triangles ELSE {}
        drawn == IF "texturedMap" \in failures THEN {} ELSE kept
        renderedAnyTexturedGeometry == drawn # {}
        shouldDrawWireOverlay == wireOverlayEnabled \/ ~renderedAnyTexturedGeometry
        wb == IF shouldDrawWireOverlay
              THEN EnsureVertexBuffer("wireVertexBuffer", tb.owned, failures)
              ELSE [ok |-> FALSE, owned |-> tb.owned]
    IN  [textured |-> drawn,
         wire |-> shouldDrawWireOverlay /\ wb.ok /\ "wireMap" \notin failures,
         owned |-> wb.owned]

InitRenderer ==
    /\ AppAbsent
    /\ NoCallsExcept({"owned"})
    /\ holders = [slot \in 0..(kSrvDescriptorCount - 1) |-> 0]
    /\ poolLastOp = NoPoolOp
    /\ freshAllocs = 0
    /\ freshOks = 0
    /\ rendererKind \in {"native", "sdl"}
    /\ IF rendererKind = "native"
       THEN /\ PoolInitialized(CHOOSE size \in DescriptorSizes : size > 1)
            /\ owned = ImplInitialize(Len(NativeAcquisitions), TRUE).owned
       ELSE /\ srvHeap = FALSE
            /\ srvDescriptorSize = 0
            /\ srvNextFreeIndex = 1
            /\ srvFreeList = <<>>
            /\ owned = SdlRendererInitialize("ok", TRUE).owned
    /\ rPhase = "idle"
    /\ frameIndex = 0
    /\ backBufferIndex = 0
    /\ nextFenceValue = 1
    /\ frameFence = [i \in 0..(kFrameCount - 1) |-> 0]
    /\ completedValue = 0
    /\ gpuQueue = <<>>
    /\ waiting = NoWait
    /\ frameNo = 0
    /\ recSlots = {}
    /\ hazard = FALSE
    /\ modelTexturePaths = <<>>
    /\ modelTextures = <<>>
    /\ composedTextures = <<>>
    /\ texturesCreated = 0
    /\ lastDraw = NoDraw

poolHistory == <<holders, poolLastOp, freshAllocs, freshOks>>

\* what no call on a native renderer changes
nativeUnused == <<appVars, poolHistory, rendererKind, composedTextures, resolved,
                  texturedTriangles, submitted, mesh, meshValid, wirePass, selectionVars,
                  loaderVars>>

\* Impl::BeginFrame, up to its return or to the wait of line 1425
NativeBeginFrame ==
    /\ rendererKind = "native"
    /\ rPhase = "idle"
    /\ frameNo < MaxRenderFrames
    /\ LET w == WaitForFence(completedValue, frameFence[backBufferIndex])
       IN  IF w.waits
           THEN /\ rPhase' = "waiting"
                /\ waiting' = BlockedCall("BeginFrame", w.value, NoModel, FALSE, "frame")
                /\ UNCHANGED recSlots
           ELSE /\ rPhase' = "frame"
                /\ recSlots' = {}
                /\ UNCHANGED waiting
    /\ deviceLog' = BeginFrameEvents(completedValue, frameFence[backBufferIndex])
    /\ frameIndex' = backBufferIndex
    /\ frameNo' = frameNo + 1
    /\ UNCHANGED <<nativeUnused, poolVars, backBufferIndex, nextFenceValue, frameFence,
                   completedValue, gpuQueue, hazard, modelTexturePaths, modelTextures,
                   texturesCreated, lastDraw, signalled, lifeVars>>

\* Impl::BeginFrame from the return of WaitForSingleObject (line 1425) on:
\* the fence has reached the slot's value
NativeBeginFrameResume ==
    /\ rendererKind = "native"
    /\ rPhase = "waiting"
    /\ waiting.fn = "BeginFrame"
    /\ completedValue >= waiting.value
    /\ rPhase' = waiting.back
    /\ waiting' = NoWait
    /\ recSlots' = {}
    /\ UNCHANGED <<nativeUnused, poolVars, frameIndex, backBufferIndex, nextFenceValue,
                   frameFence, completedValue, gpuQueue, frameNo, hazard, modelTexturePaths,
                   modelTextures, texturesCreated, lastDraw, logVars, lifeVars>>

\* Impl::RenderModelWireframe from the return of EnsureModelTexturesUploaded
\* (or from line 1553 when it is not called) to its own return.  r: what
\* EnsureModelTexturesUploaded did; queue: the command queue when it ran;
\* inFlight: the descriptor slots that work in flight at the call referred
\* to; back: the phase after the call
RenderModelWireframeReturn(model, wireOverlayEnabled, r, queue, inFlight, failures, back) ==
    \E p \in {RenderPasses(model, wireOverlayEnabled, r.cache.textures, r.ok, owned, failures)} :
        /\ rPhase' = back
        /\ waiting' = NoWait
        /\ modelTexturePaths' = r.cache.paths
        /\ modelTextures' = r.cache.textures
        /\ texturesCreated' = r.cache.created
        /\ srvNextFreeIndex' = r.cache.next
        /\ srvFreeList' = r.cache.freeList
        /\ owned' = p.owned
        /\ releaseLog' = releaseLog \o r.released
        /\ hazard' = (hazard \/ (r.freed \cap InFlightSlots(queue) # {})
                             \/ (r.cache.allocated \cap InFlightSlots(queue) # {}))
        /\ lastDraw' = [paths |-> model.texturePaths,
                        refresh |-> r.refresh, decodeFailed |-> r.decodeFailed,
                        textured |-> p.textured,
                        wire |-> p.wire,
                        inFlight |-> inFlight,
                        reused |-> (r.freed \cap r.cache.allocated) \cap inFlight]
        /\ recSlots' = recSlots \cup NativeDrawSlots(model, r.cache.textures, p.textured)
        /\ UNCHANGED <<nativeUnused, srvHeap, srvDescriptorSize, frameIndex, backBufferIndex,
                       frameFence, frameNo, shutdowns>>

\* Impl::RenderModelWireframe with a valid model and a window larger than
\* 1x1, up to its return or to the wait of line 1373 in the WaitForGpuIdle
\* of EnsureModelTexturesUploaded
RenderModelWireframeCall(back) ==
    \E model \in Models, wireOverlayEnabled \in BOOLEAN :
         LET canRenderTextured == /\ model.hasTexCoords
                                  /\ model.texturePaths # <<>>
                                  /\ model.submeshes # <<>>
             cache == [paths |-> modelTexturePaths, textures |-> modelTextures,
                       next |-> srvNextFreeIndex, freeList |-> srvFreeList,
                       created |-> texturesCreated]
         IN  IF ~canRenderTextured
             THEN /\ \E failures \in BufferFailures, r \in {EnsureNotCalled(cache)} :
                       RenderModelWireframeReturn(model, wireOverlayEnabled, r, gpuQueue,
                                                  InFlightSlots(gpuQueue), failures, back)
                  /\ deviceLog' = <<>>
                  /\ UNCHANGED <<gpuQueue, completedValue, nextFenceValue, signalled>>
             ELSE IF EnsureBranch(cache, model) # "upload"
             THEN /\ \E failures \in BufferFailures,
                       r \in {EnsureModelTexturesUploaded(srvHeap, srvDescriptorSize, cache,
                                                          model, {})} :
                       RenderModelWireframeReturn(model, wireOverlayEnabled, r, gpuQueue,
                                                  InFlightSlots(gpuQueue), failures, back)
                  /\ deviceLog' = EnsureEvents(GpuReady(owned), cache, 0, model)
                  /\ UNCHANGED <<gpuQueue, completedValue, nextFenceValue, signalled>>
             ELSE \E done \in DeviceProgress(GpuReady(owned), gpuQueue) :
                  \E w \in {WaitForGpuIdle(GpuReady(owned), gpuQueue, completedValue,
                                            nextFenceValue, done)} :
                  \E events \in {SignalEvents(GpuReady(owned), w, nextFenceValue)} :
                     /\ gpuQueue' = w.queue
                     /\ completedValue' = w.completed
                     /\ nextFenceValue' = w.next
                     /\ signalled' = signalled \cup SignalValues(events)
                     /\ IF w.waits
                        THEN /\ rPhase' = "waiting"
                             /\ waiting' = BlockedCall("RenderModelWireframe", w.value, model,
                                                       wireOverlayEnabled, back)
                             /\ deviceLog' = events
                             /\ lastDraw' = [NoDraw EXCEPT !.paths = model.texturePaths,
                                                           !.inFlight = InFlightSlots(gpuQueue)]
                             /\ UNCHANGED <<nativeUnused, poolVars, frameIndex,
                                            backBufferIndex, frameFence, frameNo, recSlots,
                                            hazard, modelTexturePaths, modelTextures,
                                            texturesCreated, lifeVars>>
                        ELSE /\ \E failing \in UploadFailures, failures \in BufferFailures :
                                  \E r \in {EnsureModelTexturesUploaded(srvHeap,
                                                 srvDescriptorSize, cache, model, failing)} :
                                     RenderModelWireframeReturn(model, wireOverlayEnabled, r,
                                                                w.queue,
                                                                InFlightSlots(gpuQueue),
                                                                failures, back)
                             /\ deviceLog' = events \o EnsureEvents(GpuReady(owned), cache,
                                                                    w.value, model)

\* Impl::RenderModelWireframe in a frame
NativeRenderModelWireframe ==
    /\ rendererKind = "native"
    /\ rPhase = "frame"
    /\ texturesCreated < MaxTexturesCreated
    /\ RenderModelWireframeCall("drawn")

\* Impl::RenderModelWireframe from the return of WaitForSingleObject in
\* WaitForGpuIdle (line 1373) on: ReleaseModelTextures, the upload loop and
\* the two passes
NativeRenderModelWireframeResume ==
    /\ rendererKind = "native"
    /\ rPhase = "waiting"
    /\ waiting.fn = "RenderModelWireframe"
    /\ completedValue >= waiting.value
    /\ LET cache == [paths |-> modelTexturePaths, textures |-> modelTextures,
                     next |-> srvNextFreeIndex, freeList |-> srvFreeList,
                     created |-> texturesCreated]
       IN  /\ \E failing \in UploadFailures, failures \in BufferFailures :
                \E r \in {EnsureModelTexturesUploaded(srvHeap, srvDescriptorSize, cache,
                                                      waiting.model, failing)} :
                   RenderModelWireframeReturn(waiting.model, waiting.overlay, r, gpuQueue,
                                              lastDraw.inFlight, failures, waiting.back)
           /\ deviceLog' = deviceLog \o EnsureEvents(GpuReady(owned), cache, waiting.value,
                                                     waiting.model)
    /\ UNCHANGED <<gpuQueue, completedValue, nextFenceValue, signalled>>

\* Impl::EndFrame.  A Present that succeeds makes the next back buffer of the
\* flip-model swap chain current; its result is not looked at (line 1482), and
\* after one that fails the current back buffer is the same
NativeEndFrame ==
    /\ rendererKind = "native"
    /\ rPhase \in {"frame", "drawn"}
    /\ deviceLog' = EndFrameEvents(frameIndex, nextFenceValue)
    /\ signalled' = signalled \cup SignalValues(EndFrameEvents(frameIndex, nextFenceValue))
    /\ gpuQueue' = gpuQueue \o <<Commands(frameNo, frameIndex, recSlots), Signal(nextFenceValue)>>
    /\ \E presented \in BOOLEAN :
         backBufferIndex' = IF presented THEN (frameIndex + 1) % kFrameCount
                            ELSE frameIndex
    /\ frameFence' = [frameFence EXCEPT ![frameIndex] = nextFenceValue]
    /\ nextFenceValue' = nextFenceValue + 1
    /\ recSlots' = {}
    /\ lastDraw' = NoDraw
    /\ rPhase' = "idle"
    /\ UNCHANGED <<nativeUnused, poolVars, frameIndex, completedValue, frameNo, waiting,
                   hazard, modelTexturePaths, modelTextures, texturesCreated, lifeVars>>

\* The GPU completes the oldest work on the command queue
GpuStep ==
    /\ UNCHANGED callVars
    /\ gpuQueue # <<>>
    /\ completedValue' = GpuCompletes(gpuQueue, completedValue, 1).completed
    /\ gpuQueue' = GpuCompletes(gpuQueue, completedValue, 1).queue
    /\ UNCHANGED <<appVars, poolVars, rendererKind, rPhase, frameIndex, backBufferIndex,
                   nextFenceValue, frameFence, frameNo, waiting, recSlots, hazard, cacheVars,
                   lastDraw>>

\* NativeDx12Renderer::WaitForGpuIdle (lines 1844-1848), called by
\* Application::ShutdownImGui, up to its return or to the wait of line 1373
NativeWaitForGpuIdle ==
    /\ rendererKind = "native"
    /\ rPhase = "idle"
    /\ nextFenceValue < MaxIdleFenceValue
    /\ \E done \in DeviceProgress(GpuReady(owned), gpuQueue) :
       \E w \in {WaitForGpuIdle(GpuReady(owned), gpuQueue, completedValue, nextFenceValue,
                                 done)} :
       \E events \in {SignalEvents(GpuReady(owned), w, nextFenceValue)} :
           /\ gpuQueue' = w.queue
           /\ completedValue' = w.completed
           /\ nextFenceValue' = w.next
           /\ signalled' = signalled \cup SignalValues(events)
           /\ IF w.waits
              THEN /\ rPhase' = "waiting"
                   /\ waiting' = BlockedCall("WaitForGpuIdle", w.value, NoModel, FALSE, "idle")
                   /\ deviceLog' = events
              ELSE /\ UNCHANGED <<rPhase, waiting>>
                   /\ deviceLog' = events \o IdleEvents(GpuReady(owned), w.value)
    /\ UNCHANGED <<nativeUnused, poolVars, frameIndex, backBufferIndex, frameFence, frameNo,
                   recSlots, hazard, modelTexturePaths, modelTextures, texturesCreated,
                   lastDraw, lifeVars>>

\* Impl::WaitForGpuIdle from the return of WaitForSingleObject on
NativeWaitForGpuIdleResume ==
    /\ rendererKind = "native"
    /\ rPhase = "waiting"
    /\ waiting.fn = "WaitForGpuIdle"
    /\ completedValue >= waiting.value
    /\ rPhase' = waiting.back
    /\ waiting' = NoWait
    /\ deviceLog' = deviceLog \o IdleEvents(GpuReady(owned), waiting.value)
    /\ UNCHANGED <<nativeUnused, poolVars, frameIndex, backBufferIndex, nextFenceValue,
                   frameFence, completedValue, gpuQueue, frameNo, recSlots, hazard,
                   modelTexturePaths, modelTextures, texturesCreated, lastDraw, signalled,
                   lifeVars>>

\* Impl::Shutdown lines 1308-1361, the WaitForGpuIdle of line 1307 having
\* returned: ReleaseModelTextures and the resets; queue: the command queue
\* at that point
ShutdownReturn(queue) ==
    LET handedBack == ReleaseMembers(owned, NativeReleaseOrder)
    IN  /\ releaseLog' = releaseLog \o ReleaseCachedTextures(modelTextures) \o handedBack
        /\ owned' = owned \ SeqToSet(handedBack)
        /\ hazard' = (hazard \/ (TextureSlots(modelTextures) \cap InFlightSlots(queue) # {}))
        /\ modelTexturePaths' = <<>>
        /\ modelTextures' = <<>>
        /\ frameFence' = [i \in 0..(kFrameCount - 1) |-> 0]
        /\ frameIndex' = 0
        /\ nextFenceValue' = 1
        /\ srvHeap' = FALSE
        /\ srvDescriptorSize' = 0
        /\ srvNextFreeIndex' = 1
        /\ srvFreeList' = <<>>
        /\ rPhase' = "shutdown"
        /\ waiting' = NoWait
        /\ shutdowns' = shutdowns + 1
        /\ lastDraw' = NoDraw
        /\ UNCHANGED <<nativeUnused, backBufferIndex, frameNo, recSlots, texturesCreated>>

\* Impl::Shutdown of a renderer that is in no frame, up to its return or to
\* the wait of line 1373 in WaitForGpuIdle
NativeShutdown ==
    /\ rendererKind = "native"
    /\ rPhase \in {"constructed", "failed", "idle", "shutdown"}
    /\ shutdowns < MaxShutdowns
    /\ \E done \in DeviceProgress(GpuReady(owned), gpuQueue) :
       \E w \in {WaitForGpuIdle(GpuReady(owned), gpuQueue, completedValue, nextFenceValue,
                                 done)} :
       \E events \in {SignalEvents(GpuReady(owned), w, nextFenceValue)} :
           /\ gpuQueue' = w.queue
           /\ completedValue' = w.completed
           /\ signalled' = signalled \cup SignalValues(events)
           /\ IF w.waits
              THEN /\ rPhase' = "waiting"
                   /\ waiting' = BlockedCall("Shutdown", w.value, NoModel, FALSE, "shutdown")
                   /\ nextFenceValue' = w.next
                   /\ deviceLog' = events
                   /\ UNCHANGED <<nativeUnused, poolVars, frameIndex, backBufferIndex,
                                  frameFence, frameNo, recSlots, hazard, modelTexturePaths,
                                  modelTextures, texturesCreated, lastDraw, lifeVars>>
              ELSE /\ ShutdownReturn(w.queue)
                   /\ deviceLog' = events \o IdleEvents(GpuReady(owned), w.value)
                                       \o <<DeviceEvent("release", Len(modelTextures),
                                                        "Shutdown", 0)>>

\* Impl::Shutdown from the return of WaitForSingleObject in WaitForGpuIdle on
NativeShutdownResume ==
    /\ rendererKind = "native"
    /\ rPhase = "waiting"
    /\ waiting.fn = "Shutdown"
    /\ completedValue >= waiting.value
    /\ ShutdownReturn(gpuQueue)
    /\ deviceLog' = deviceLog \o IdleEvents(GpuReady(owned), waiting.value)
                        \o <<DeviceEvent("release", Len(modelTextures), "Shutdown", 0)>>
    /\ UNCHANGED <<gpuQueue, completedValue, signalled>>

-----------------------------------------------------------------------------
(* SdlRendererBase.cpp: model texture cache and composed textures *)

\* std::clamp on thousandths
Clamp(x, lo, hi) == IF x < lo THEN lo ELSE IF x > hi THEN hi ELSE x

\* the calls of one UpdateModelTextures that fail, none or one call for one
\* file: "decode" (LoadSurfaceWithWic and SDL_LoadBMP both give no surface,
\* SdlRendererBase.cpp lines 472-479), "texture" (SDL_CreateTextureFromSurface
\* on the decoded surface, line 489)
SdlLoadFailures ==
    {{}} \cup {{Failure(call, path)} : call \in {"decode", "texture"},
                                     path \in {"a.png", "b.png"}}

\* the submeshes of one RenderModelWireframe, by position, for which
\* SDL_CreateSurface or SDL_CreateTextureFromSurface fails in
\* CreateComposedTexture (SdlRendererBase.cpp lines 553-559 and 593-597)
ComposeFailures == {{}, {1}, {2}}

\* UpdateModelTextures lines 471-499: one entry per texture path.  The
\* surface is null when the file does not decode; the texture is null then,
\* and also when SDL_CreateTextureFromSurface fails on the decoded surface.
\* A surface that SDL_ConvertSurface cannot convert is kept as decoded.
RECURSIVE LoadTextures(_, _, _, _, _)
LoadTextures(modelPaths, i, failing, textures, created) ==
    IF i > Len(modelPaths) THEN textures
    ELSE LET surface == Failure("decode", modelPaths[i]) \notin failing
             texture == surface /\ Failure("texture", modelPaths[i]) \notin failing
             entry == CachedTexture(modelPaths[i], texture, surface, NullHandle, created + 1)
         IN  LoadTextures(modelPaths, i + 1, failing, Append(textures, entry), created + 1)

\* UpdateModelTextures that reloads the base textures of a changed path list
\* and leaves the composed entries in place
UpdateModelTexturesKeepComposed(paths, textures, composed, created, model, failing) ==
    IF model.texturePaths = <<>>
    THEN [refresh |-> "released", decodeFailed |-> FALSE, paths |-> <<>>,
          textures |-> <<>>, composed |-> <<>>, created |-> created]
    ELSE IF CacheIsCurrent(paths, textures, model.texturePaths)
    THEN [refresh |-> "noop", decodeFailed |-> FALSE, paths |-> paths,
          textures |-> textures, composed |-> composed, created |-> created]
    ELSE [refresh |-> "ok",
          decodeFailed |-> (\E i \in 1..Len(model.texturePaths) :
                               Failure("decode", model.texturePaths[i]) \in failing),
          paths |-> model.texturePaths,
          textures |-> LoadTextures(model.texturePaths, 1, failing, <<>>, created),
          composed |-> composed,
          created |-> created + Len(model.texturePaths)]

\* SdlRendererBase::UpdateModelTextures on an initialized renderer:
\* [refresh, decodeFailed, paths, textures, composed, created]
UpdateModelTextures(paths, textures, composed, created, model, failing) ==
    IF model.texturePaths = <<>>
    THEN [refresh |-> "released", decodeFailed |-> FALSE, paths |-> <<>>,
          textures |-> <<>>, composed |-> <<>>, created |-> created]
    ELSE IF CacheIsCurrent(paths, textures, model.texturePaths)
    THEN [refresh |-> "noop", decodeFailed |-> FALSE, paths |-> paths,
          textures |-> textures, composed |-> composed, created |-> created]
    ELSE [refresh |-> "ok",
          decodeFailed |-> (\E i \in 1..Len(model.texturePaths) :
                               Failure("decode", model.texturePaths[i]) \in failing),
          paths |-> model.texturePaths,
          textures |-> LoadTextures(model.texturePaths, 1, failing, <<>>, created),
          composed |-> <<>>,
          created |-> created + Len(model.texturePaths)]

\* ResolveSubmeshTexture lines 507-522
NeedsComposedTexture(submesh) ==
    \/ submesh.opacityTextureIndex >= 0
    \/ submesh.alphaCutoutEnabled
    \/ submesh.opacityTextureInverted
    \/ submesh.opacity < 999

ComposedTextureKey(submesh) ==
    [colorTextureIndex |-> submesh.textureIndex,
     opacityTextureIndex |-> submesh.opacityTextureIndex,
     opacityBits |-> Clamp(submesh.opacity, 0, 1000),
     cutoffBits |-> Clamp(submesh.alphaCutoff, 0, 1000),
     useCutout |-> submesh.alphaCutoutEnabled,
     invertOpacityTexture |-> submesh.opacityTextureInverted]

\* ResolveSubmeshTexture that looks at the opacity only and does not search
\* the composed entries
ResolveSubmeshTextureUncached(textures, composed, created, submesh, createFails) ==
    IF submesh.textureIndex < 0 \/ submesh.textureIndex >= Len(textures)
    THEN [texture |-> 0, composed |-> composed, created |-> created]
    ELSE LET base == textures[submesh.textureIndex + 1]
             baseTexture == IF base.texture THEN base.id ELSE 0
         IN  IF submesh.opacity >= 999 \/ ~base.surface \/ createFails
             THEN [texture |-> baseTexture, composed |-> composed, created |-> created]
             ELSE [texture |-> created + 1,
                   composed |-> Append(composed, [key |-> submesh, texture |-> created + 1]),
                   created |-> created + 1]

\* SdlRendererBase::ResolveSubmeshTexture: [texture, composed, created];
\* texture is the identity of the SDL_Texture returned, 0 for nullptr.
\* CreateComposedTexture (lines 539-602) returns nullptr when the color
\* surface is missing, and when SDL_CreateSurface or
\* SDL_CreateTextureFromSurface fails (createFails); the base texture, which
\* may be null, is returned then and no entry is pushed (lines 530-533).
ResolveSubmeshTexture(textures, composed, created, submesh, createFails) ==
    IF submesh.textureIndex < 0 \/ submesh.textureIndex >= Len(textures)
    THEN [texture |-> 0, composed |-> composed, created |-> created]
    ELSE LET base == textures[submesh.textureIndex + 1]
             baseTexture == IF base.texture THEN base.id ELSE 0
             key == ComposedTextureKey(submesh)
             hits == {i \in 1..Len(composed) : composed[i].key = key}
         IN  IF ~NeedsComposedTexture(submesh)
             THEN [texture |-> baseTexture, composed |-> composed, created |-> created]
             ELSE IF hits # {}
             THEN [texture |-> composed[CHOOSE i \in hits : \A j \in hits : i <= j].texture,
                   composed |-> composed, created |-> created]
             ELSE IF ~base.surface \/ createFails
             THEN [texture |-> baseTexture, composed |-> composed, created |-> created]
             ELSE [texture |-> created + 1,
                   composed |-> Append(composed, [key |-> key, texture |-> created + 1]),
                   created |-> created + 1]

\* RenderModelWireframe lines 380-396: the submeshes from position i on;
\* failing: the positions whose composed texture cannot be created;
\* acc: [composed, created, drawn]
RECURSIVE ResolveSubmeshes(_, _, _, _, _)
ResolveSubmeshes(textures, submeshes, i, failing, acc) ==
    IF i > Len(submeshes) THEN acc
    ELSE LET r == ResolveSubmeshTexture(textures, acc.composed, acc.created, submeshes[i],
                                        i \in failing)
         IN  ResolveSubmeshes(textures, submeshes, i + 1, failing,
                              [composed |-> r.composed, created |-> r.created,
                               drawn |-> IF r.texture # 0 THEN acc.drawn \cup {i}
                                         ELSE acc.drawn])

\* what no call on an SDL renderer changes
sdlUnused == <<appVars, poolVars, rendererKind, frameIndex, backBufferIndex, nextFenceValue,
               frameFence, completedValue, gpuQueue, waiting, recSlots, hazard, resolved,
               texturedTriangles, submitted, mesh, meshValid, wirePass, logVars,
               selectionVars, loaderVars>>

\* SdlRendererBase::BeginFrame
SdlBeginFrame ==
    /\ rendererKind = "sdl"
    /\ rPhase = "idle"
    /\ frameNo < MaxRenderFrames
    /\ frameNo' = frameNo + 1
    /\ rPhase' = "frame"
    /\ UNCHANGED <<sdlUnused, cacheVars, lastDraw, lifeVars>>

\* UpdateModelTextures lines 454-466: the textures and surfaces handed back
\* by ReleaseComposedTextures and ReleaseModelTextures when the refresh is
\* not a no-op
UpdateReleases(refresh, composed, textures) ==
    IF refresh = "noop" THEN <<>>
    ELSE ReleaseComposed(composed) \o ReleaseCachedTextures(textures)

\* SdlRendererBase::RenderModelWireframe with a valid model and an output
\* larger than 1x1.  A mesh without submeshes is drawn as submesh 0.  back:
\* the phase after the call
SdlRenderModelWireframeCall(back) ==
    /\ \E model \in Models, wireOverlayEnabled \in BOOLEAN, failing \in SdlLoadFailures,
          composeFailing \in ComposeFailures :
         LET u == UpdateModelTextures(modelTexturePaths, modelTextures, composedTextures,
                                      texturesCreated, model, failing)
             canRenderTextured == u.textures # <<>> /\ model.hasTexCoords
             r == IF ~canRenderTextured
                  THEN [composed |-> u.composed, created |-> u.created, drawn |-> {}]
                  ELSE IF model.submeshes # <<>>
                  THEN ResolveSubmeshes(u.textures, model.submeshes, 1, composeFailing,
                                        [composed |-> u.composed, created |-> u.created,
                                         drawn |-> {}])
                  ELSE [composed |-> u.composed, created |-> u.created,
                        drawn |-> IF u.textures[1].texture THEN {0} ELSE {}]
         IN  /\ modelTexturePaths' = u.paths
             /\ modelTextures' = u.textures
             /\ composedTextures' = r.composed
             /\ texturesCreated' = r.created
             /\ releaseLog' = releaseLog \o UpdateReleases(u.refresh, composedTextures,
                                                           modelTextures)
             /\ lastDraw' = [paths |-> model.texturePaths,
                             refresh |-> u.refresh, decodeFailed |-> u.decodeFailed,
                             textured |-> r.drawn,
                             wire |-> (wireOverlayEnabled \/ r.drawn = {}),
                             inFlight |-> {},
                             reused |-> {}]
    /\ rPhase' = back
    /\ UNCHANGED <<sdlUnused, frameNo, owned, shutdowns>>

\* SdlRendererBase::RenderModelWireframe in a frame
SdlRenderModelWireframe ==
    /\ rendererKind = "sdl"
    /\ rPhase = "frame"
    /\ SdlRenderModelWireframeCall("drawn")

\* SdlRendererBase::EndFrame
SdlEndFrame ==
    /\ rendererKind = "sdl"
    /\ rPhase \in {"frame", "drawn"}
    /\ rPhase' = "idle"
    /\ lastDraw' = NoDraw
    /\ UNCHANGED <<sdlUnused, frameNo, cacheVars, lifeVars>>

\* SdlRendererBase::Shutdown (lines 251-266), in any state of the renderer:
\* the live fallback of Application::Run calls it between BeginFrame and
\* EndFrame (Application.cpp lines 489-493)
SdlShutdown ==
    /\ rendererKind = "sdl"
    /\ rPhase \in {"constructed", "failed", "idle", "frame", "drawn", "shutdown"}
    /\ shutdowns < MaxShutdowns
    /\ LET handedBack == ReleaseMembers(owned, SdlReleaseOrder)
       IN  /\ releaseLog' = releaseLog \o ReleaseComposed(composedTextures)
                               \o ReleaseCachedTextures(modelTextures) \o handedBack
           /\ owned' = owned \ SeqToSet(handedBack)
    /\ modelTexturePaths' = <<>>
    /\ modelTextures' = <<>>
    /\ composedTextures' = <<>>
    /\ rPhase' = "shutdown"
    /\ shutdowns' = shutdowns + 1
    /\ lastDraw' = NoDraw
    /\ UNCHANGED <<sdlUnused, frameNo, texturesCreated>>

NextRenderer ==
    \/ NativeBeginFrame
    \/ NativeBeginFrameResume
    \/ NativeRenderModelWireframe
    \/ NativeRenderModelWireframeResume
    \/ NativeEndFrame
    \/ GpuStep
    \/ NativeWaitForGpuIdle
    \/ NativeWaitForGpuIdleResume
    \/ NativeShutdown
    \/ NativeShutdownResume
    \/ SdlBeginFrame
    \/ SdlRenderModelWireframe
    \/ SdlEndFrame
    \/ SdlShutdown

SpecRenderer == InitRenderer /\ [][NextRenderer]_vars

-----------------------------------------------------------------------------
(* Claims about the native frame scheduler and the texture caches *)

Recording == rendererKind = "native" /\ rPhase \in {"frame", "drawn"}

InFlightCommands == {i \in 1..Len(gpuQueue) : gpuQueue[i].kind = "commands"}

\* C11: with kFrameCount = 2 frame slots, while the native renderer records
\* a frame the fence has reached the fence value its slot got from the
\* latest EndFrame, no commands recorded from the slot's allocator are in
\* flight, and every frame older than the previous one has completed on the
\* GPU
C11_AllocatorNotInFlight ==
    Recording =>
        /\ completedValue >= frameFence[frameIndex]
        /\ \A i \in InFlightCommands :
              /\ gpuQueue[i].allocator # frameIndex
              /\ gpuQueue[i].frame > frameNo - kFrameCount

\* the third frame is being recorded on the allocator of the first while the
\* second frame is still in flight
C11_Witness ==
    /\ Recording
    /\ frameNo > kFrameCount
    /\ frameFence[frameIndex] > 0
    /\ \E i \in InFlightCommands : gpuQueue[i].frame = frameNo - 1

\* C17: no descriptor slot is freed, and none is handed out again, while
\* submitted GPU work that refers to it is still in flight
C17_NoSlotReuseInFlight == ~hazard

\* a refresh freed a slot that frames in flight at the call drew from, and
\* handed it out again for a new texture
C17_Witness ==
    /\ rendererKind = "native"
    /\ lastDraw.reused # {}
    /\ lastDraw.reused \subseteq TextureSlots(modelTextures)

\* a RenderModelWireframe step that reached the texture cache
EnsureStep == rPhase = "frame" /\ rPhase' = "drawn" /\ lastDraw'.refresh # "none"

IsPrefix(s, t) == Len(s) <= Len(t) /\ SubSeq(t, 1, Len(s)) = s

\* C18: ensuring the textures of a mesh whose texture path list equals the
\* cached list keeps every cached texture and composed entry as it is,
\* allocates and frees no descriptor slot and signals no fence for a
\* GPU-idle wait
C18_SamePathsNoOp ==
    [][(EnsureStep /\ lastDraw'.paths = modelTexturePaths) =>
          /\ modelTexturePaths' = modelTexturePaths
          /\ modelTextures' = modelTextures
          /\ IsPrefix(composedTextures, composedTextures')
          /\ srvNextFreeIndex' = srvNextFreeIndex
          /\ srvFreeList' = srvFreeList
          /\ nextFenceValue' = nextFenceValue
          /\ gpuQueue' = gpuQueue
          /\ completedValue' = completedValue]_vars

\* the SDL cache, which holds base textures and a composed entry, was asked
\* in a later frame for the textures it holds
C18_Witness ==
    /\ rendererKind = "sdl"
    /\ rPhase = "drawn"
    /\ frameNo >= 2
    /\ lastDraw.refresh = "noop"
    /\ lastDraw.paths = modelTexturePaths
    /\ modelTextures # <<>>
    /\ composedTextures # <<>>
    /\ releaseLog = <<>>

\* C19: after a texture-cache refresh in which a texture file failed to
\* decode, the refresh has failed and the cache holds no texture, no path
\* and no descriptor slot
C19_NoPartialCache ==
    (rPhase = "drawn" /\ lastDraw.decodeFailed) =>
        /\ lastDraw.refresh = "failed"
        /\ modelTextures = <<>>
        /\ modelTexturePaths = <<>>
        /\ TextureSlots(modelTextures) = {}

\* C20: in a frame in which a texture file of the mesh failed to decode no
\* submesh is drawn textured and the wireframe pass is drawn
C20_WireframeOnly ==
    (rPhase = "drawn" /\ lastDraw.decodeFailed) =>
        /\ lastDraw.textured = {}
        /\ lastDraw.wire

-----------------------------------------------------------------------------
(* SdlRendererBase.cpp: ResolveSubmeshTexture on one cached texture list *)

\* number of ResolveSubmeshTexture calls followed
MaxResolves == 2

\* the submeshes resolved: opacity and alphaCutoff in thousandths
ComposeSubmeshes ==
    {[Submesh(t, o, opacity) EXCEPT !.alphaCutoff = cutoff,
                                    !.alphaCutoutEnabled = cutout,
                                    !.opacityTextureInverted = inverted] :
        t \in {0, 1}, o \in {-1, 1}, opacity \in {500, 1000, 1500},
        cutoff \in {250, 500}, cutout \in BOOLEAN, inverted \in BOOLEAN}

\* An SDL renderer whose UpdateModelTextures has just loaded the two texture
\* files of a mesh, one of which may have failed to decode or may have a
\* surface and no texture
InitCompose ==
    /\ AppAbsent
    /\ ImplConstructed
    /\ NoCalls
    /\ rendererKind = "sdl"
    /\ rPhase = "frame"
    /\ frameIndex = 0
    /\ backBufferIndex = 0
    /\ nextFenceValue = 1
    /\ frameFence = [i \in 0..(kFrameCount - 1) |-> 0]
    /\ completedValue = 0
    /\ gpuQueue = <<>>
    /\ waiting = NoWait
    /\ frameNo = 1
    /\ recSlots = {}
    /\ hazard = FALSE
    /\ \E failing \in SdlLoadFailures :
         LET u == UpdateModelTextures(<<>>, <<>>, <<>>, 0,
                                      [texturePaths |-> <<"a.png", "b.png">>,
                                       hasTexCoords |-> TRUE, submeshes |-> <<>>],
                                      failing)
         IN  /\ modelTexturePaths = u.paths
             /\ modelTextures = u.textures
             /\ composedTextures = u.composed
             /\ texturesCreated = u.created
    /\ lastDraw = NoDraw

\* RenderModelWireframe line 382: one call of ResolveSubmeshTexture;
\* createFails: SDL_CreateSurface or SDL_CreateTextureFromSurface fails if
\* CreateComposedTexture gets to them.  hit: an entry has the key of the
\* submesh at the call
ResolveCall ==
    /\ Len(resolved) < MaxResolves
    /\ \E submesh \in ComposeSubmeshes, createFails \in BOOLEAN :
         LET r == ResolveSubmeshTexture(modelTextures, composedTextures, texturesCreated,
                                        submesh, createFails)
         IN  /\ composedTextures' = r.composed
             /\ texturesCreated' = r.created
             /\ resolved' = Append(resolved,
                                   [submesh |-> submesh, texture |-> r.texture,
                                    createFails |-> createFails,
                                    hit |-> \E i \in 1..Len(composedTextures) :
                                               composedTextures[i].key
                                                   = ComposedTextureKey(submesh),
                                    synthesized |-> r.created > texturesCreated])
    /\ UNCHANGED <<appVars, logVars, lifeVars, selectionVars, loaderVars, poolVars, rendererKind, rPhase, frameVars, recSlots, hazard,
                   modelTexturePaths, modelTextures, lastDraw, texturedTriangles, submitted,
                   mesh, meshValid, wirePass>>

NextCompose == ResolveCall

SpecCompose == InitCompose /\ [][NextCompose]_vars

-----------------------------------------------------------------------------
(* Properties of the composed-texture cache *)

\* the six fields the composition key is built from
KeyFields(submesh) ==
    <<submesh.textureIndex, submesh.opacityTextureIndex, submesh.opacity,
      submesh.alphaCutoff, submesh.alphaCutoutEnabled, submesh.opacityTextureInverted>>

ClampedKeyFields(submesh) ==
    <<submesh.textureIndex, submesh.opacityTextureIndex,
      IF submesh.opacity > 1000 THEN 1000 ELSE submesh.opacity,
      IF submesh.alphaCutoff > 1000 THEN 1000 ELSE submesh.alphaCutoff,
      submesh.alphaCutoutEnabled, submesh.opacityTextureInverted>>

WantsComposition(submesh) ==
    \/ submesh.opacityTextureIndex >= 0
    \/ submesh.alphaCutoutEnabled
    \/ submesh.opacityTextureInverted
    \/ submesh.opacity < 999

ColorDecoded(submesh) ==
    /\ submesh.textureIndex + 1 \in 1..Len(modelTextures)
    /\ modelTextures[submesh.textureIndex + 1].surface

\* the call had a composed texture to return: an entry with the key of the
\* submesh existed, or the color surface exists and the composed surface and
\* texture could be created
ComposedFor(r) ==
    /\ WantsComposition(r.submesh)
    /\ r.hit \/ (ColorDecoded(r.submesh) /\ ~r.createFails)

\* C21 as stated: equal fields give the same handle without a second
\* synthesis, and submeshes that differ in a field get different handles
C21_Original ==
    \A i, j \in 1..Len(resolved) :
        i < j =>
            IF KeyFields(resolved[i].submesh) = KeyFields(resolved[j].submesh)
            THEN resolved[j].texture = resolved[i].texture /\ ~resolved[j].synthesized
            ELSE resolved[j].texture # resolved[i].texture

\* C21: within one cached texture list, a submesh whose key fields equal
\* those of an earlier submesh that needed no composition, or for which a
\* composed texture existed or was created, resolves to the same handle
\* and is not synthesized again; two submeshes that both need composition,
\* for both of which a composed texture existed or could be created, and
\* whose key fields differ after opacity and cutoff are clamped to [0, 1],
\* resolve to different handles
C21_ComposedCache ==
    \A i, j \in 1..Len(resolved) :
        i < j =>
            LET a == resolved[i].submesh
                b == resolved[j].submesh
            IN  /\ ( /\ KeyFields(a) = KeyFields(b)
                     /\ ~WantsComposition(a) \/ ComposedFor(resolved[i]) ) =>
                      /\ resolved[j].texture = resolved[i].texture
                      /\ ~resolved[j].synthesized
                /\ ( /\ ComposedFor(resolved[i]) /\ ComposedFor(resolved[j])
                     /\ ClampedKeyFields(a) # ClampedKeyFields(b) ) =>
                      /\ resolved[j].texture # resolved[i].texture
                      /\ resolved[i].texture # 0 /\ resolved[j].texture # 0

\* the same translucent submesh was resolved twice: synthesized once, found
\* in the cache the second time
C21_Witness ==
    /\ Len(resolved) = 2
    /\ resolved[1].submesh = resolved[2].submesh
    /\ resolved[1].synthesized
    /\ ~resolved[2].synthesized
    /\ resolved[2].texture = resolved[1].texture

-----------------------------------------------------------------------------
(* RenderModelWireframe: order of the textured pass *)

\* number of textured triangles collected
MaxPrimitives == 3

\* depthKey / depth of a triangle
DepthKeys == 0..2

\* a TexturedTriangle; id tells triangles with equal keys apart
TexturedTriangle(id, isTransparent, depthKey) ==
    [id |-> id, isTransparent |-> isTransparent, depthKey |-> depthKey]

TriangleLists ==
    UNION {{[i \in 1..n |-> TexturedTriangle(i, flags[i], keys[i])] :
               flags \in [1..n -> BOOLEAN], keys \in [1..n -> DepthKeys]} :
           n \in 0..MaxPrimitives}

\* the comparator of NativeDx12Renderer.cpp lines 1638-1648
NativeLessDescending(left, right) ==
    IF left.isTransparent # right.isTransparent THEN ~left.isTransparent
    ELSE left.depthKey > right.depthKey

NativeLess(left, right) ==
    IF left.isTransparent # right.isTransparent THEN ~left.isTransparent
    ELSE IF left.isTransparent THEN left.depthKey > right.depthKey
    ELSE left.depthKey < right.depthKey

\* the comparator of SdlRendererBase.cpp lines 401-409
SdlLess(a, b) ==
    IF a.isTransparent # b.isTransparent THEN ~a.isTransparent
    ELSE a.depthKey > b.depthKey

Rearrangements(n) ==
    {f \in [1..n -> 1..n] : \A i, j \in 1..n : i # j => f[i] # f[j]}

\* std::sort: some rearrangement of the list in which no element is less
\* than one before it; elements that are equivalent come in any order
StdSort(Less(_, _), list) ==
    {out \in {[i \in 1..Len(list) |-> list[f[i]]] : f \in Rearrangements(Len(list))} :
        \A i, j \in 1..Len(list) : i < j => ~Less(out[j], out[i])}

\* RenderModelWireframe has collected the textured triangles of the mesh
InitSort ==
    /\ AppAbsent
    /\ ImplConstructed
    /\ RendererFields
    /\ NoCallsExcept({"texturedTriangles"})
    /\ texturedTriangles \in TriangleLists

\* NativeDx12Renderer.cpp lines 1638-1713: sort, fill the vertex buffer and
\* draw the batches in order.  Nothing is drawn when EnsureTexturedVertexBuffer
\* or Map fails.
NativeSubmitTextured ==
    /\ ~submitted.done
    /\ \E out \in StdSort(NativeLess, texturedTriangles),
          bufferOk \in (IF texturedTriangles = <<>> THEN {TRUE} ELSE BOOLEAN) :
         submitted' = [done |-> TRUE, backend |-> "native", bufferOk |-> bufferOk,
                       order |-> IF bufferOk THEN out ELSE <<>>]
    /\ UNCHANGED <<appVars, logVars, lifeVars, selectionVars, loaderVars, poolVars, rendererKind, rPhase, frameVars, recSlots, hazard,
                   cacheVars, lastDraw, resolved, texturedTriangles, mesh, meshValid,
                   wirePass>>

\* SdlRendererBase.cpp lines 401-413: sort and SDL_RenderGeometry in order
SdlSubmitTextured ==
    /\ ~submitted.done
    /\ \E out \in StdSort(SdlLess, texturedTriangles) :
         submitted' = [done |-> TRUE, backend |-> "sdl", bufferOk |-> TRUE, order |-> out]
    /\ UNCHANGED <<appVars, logVars, lifeVars, selectionVars, loaderVars, poolVars, rendererKind, rPhase, frameVars, recSlots, hazard,
                   cacheVars, lastDraw, resolved, texturedTriangles, mesh, meshValid,
                   wirePass>>

NextSort ==
    \/ NativeSubmitTextured
    \/ SdlSubmitTextured

SpecSort == InitSort /\ [][NextSort]_vars

-----------------------------------------------------------------------------
(* Properties of the textured pass order *)

IsPermutationOf(out, list) ==
    /\ Len(out) = Len(list)
    /\ \A i \in 1..Len(list) : \E j \in 1..Len(out) : out[j] = list[i]
    /\ \A i, j \in 1..Len(out) : i # j => out[i] # out[j]

OpaqueFirst(out) ==
    \A i, j \in 1..Len(out) : (i < j /\ out[i].isTransparent) => out[j].isTransparent

OpaqueAscending(out) ==
    \A i, j \in 1..Len(out) :
        (i < j /\ ~out[i].isTransparent /\ ~out[j].isTransparent) =>
            out[i].depthKey <= out[j].depthKey

OpaqueDescending(out) ==
    \A i, j \in 1..Len(out) :
        (i < j /\ ~out[i].isTransparent /\ ~out[j].isTransparent) =>
            out[i].depthKey >= out[j].depthKey

TransparentDescending(out) ==
    \A i, j \in 1..Len(out) :
        (i < j /\ out[i].isTransparent /\ out[j].isTransparent) =>
            out[i].depthKey >= out[j].depthKey

\* C22 as stated: on every backend the triangles are drawn opaque first,
\* opaque by non-decreasing depth key, transparent by non-increasing depth
\* key, and the draw order is a permutation of the list
C22_Original ==
    submitted.done =>
        /\ IsPermutationOf(submitted.order, texturedTriangles)
        /\ OpaqueFirst(submitted.order)
        /\ OpaqueAscending(submitted.order)
        /\ TransparentDescending(submitted.order)

\* C22: when the textured pass draws (always on SDL; on native DX12 when the
\* vertex buffer is allocated and mapped) the draw order is a permutation of
\* the list with all opaque triangles before all transparent ones and the
\* transparent ones by non-increasing depth key; the opaque ones are by
\* non-decreasing depth key on native DX12 and by non-increasing depth key
\* on SDL
C22_TransparencySort ==
    (submitted.done /\ submitted.bufferOk) =>
        /\ IsPermutationOf(submitted.order, texturedTriangles)
        /\ OpaqueFirst(submitted.order)
        /\ TransparentDescending(submitted.order)
        /\ (submitted.backend = "native" => OpaqueAscending(submitted.order))
        /\ (submitted.backend = "sdl" => OpaqueDescending(submitted.order))

\* the native renderer drew a list that was not in order: two opaque
\* triangles of different depth and a transparent one
C22_Witness ==
    /\ submitted.done
    /\ submitted.backend = "native"
    /\ submitted.bufferOk
    /\ submitted.order # texturedTriangles
    /\ \E i, j, k \in 1..Len(submitted.order) :
          /\ ~submitted.order[i].isTransparent
          /\ ~submitted.order[j].isTransparent
          /\ submitted.order[i].depthKey < submitted.order[j].depthKey
          /\ submitted.order[k].isTransparent

-----------------------------------------------------------------------------
(* ModelData.hpp and the wireframe pass of RenderModelWireframe *)

\* entries of the index list of a mesh
MaxIndices == 6

\* values of an index; a mesh has as many positions as there are values, or
\* fewer
VertexIndices == 0..2

\* ModelData::IsValid
IsValidPositionsOnly(model) ==
    model.projected # <<>>

IsValid(model) ==
    model.projected # <<>> /\ model.indices # <<>>

\* i0, i1, i2 of the triangle that starts at position index (from 0)
Corners(indices, index) ==
    <<indices[index + 1], indices[index + 2], indices[index + 3]>>

InRangeCorners(projected, corners) ==
    \A c \in 1..3 : corners[c] < Len(projected)

AddLineUnchecked(vertices, projected, triangle, a, b) ==
    Append(vertices, [triangle |-> triangle, a |-> a, b |-> b])

\* AddLine of NativeDx12Renderer.cpp: one segment when both ends are valid
AddLine(vertices, projected, triangle, a, b) ==
    IF ~projected[a + 1] \/ ~projected[b + 1] THEN vertices
    ELSE Append(vertices, [triangle |-> triangle, a |-> a, b |-> b])

\* NativeDx12Renderer.cpp lines 1533-1546: lineVertices
RECURSIVE NativeLines(_, _, _, _)
NativeLines(projected, indices, index, vertices) ==
    IF index + 2 >= Len(indices) THEN vertices
    ELSE LET c == Corners(indices, index)
             t == index \div 3
         IN  IF ~InRangeCorners(projected, c)
             THEN NativeLines(projected, indices, index + 3, vertices)
             ELSE NativeLines(projected, indices, index + 3,
                      AddLine(AddLine(AddLine(vertices, projected, t, c[1], c[2]),
                                      projected, t, c[2], c[3]),
                              projected, t, c[3], c[1]))

\* SdlRendererBase.cpp lines 425-446: the SDL_RenderLine calls
RECURSIVE SdlLines(_, _, _, _)
SdlLines(projected, indices, index, lines) ==
    IF index + 2 >= Len(indices) THEN lines
    ELSE LET c == Corners(indices, index)
             t == index \div 3
         IN  IF ~InRangeCorners(projected, c)
             THEN SdlLines(projected, indices, index + 3, lines)
             ELSE IF \E k \in 1..3 : ~projected[c[k] + 1]
             THEN SdlLines(projected, indices, index + 3, lines)
             ELSE SdlLines(projected, indices, index + 3,
                      lines \o <<[triangle |-> t, a |-> c[1], b |-> c[2]],
                                 [triangle |-> t, a |-> c[2], b |-> c[3]],
                                 [triangle |-> t, a |-> c[3], b |-> c[1]]>>)

\* the index range of a submesh
MeshSubmesh(indexStart, indexCount) == [indexStart |-> indexStart, indexCount |-> indexCount]

\* What RenderModelWireframe is given for its textured pass beside the
\* positions and the indices.  texturePaths: the mesh has a texture path;
\* hasTexCoords: texCoords.size() == positions.size(); texture: the cached
\* texture of that path is there (srvGpuDescriptor.ptr != 0 on native DX12,
\* the SDL_Texture is not null on SDL); submeshes: the index ranges of the
\* submeshes, each of which has textureIndex 0 and needs no composition.
\* The texture cache holds the textures of the mesh's paths, so that
\* EnsureModelTexturesUploaded returns true at line 884 and
\* UpdateModelTextures returns at line 461.
TexturedInput(texturePaths, hasTexCoords, texture, submeshes) ==
    [texturePaths |-> texturePaths, hasTexCoords |-> hasTexCoords, texture |-> texture,
     submeshes |-> submeshes]

\* no textures; a texture and no submesh; texCoords that do not match the
\* positions; a texture that is not there; and a texture with one submesh
\* that is the first triangle, the second triangle, three indices from
\* index 1 on, or two indices
TexturedInputs ==
    {TexturedInput(FALSE, FALSE, FALSE, <<>>),
     TexturedInput(TRUE, TRUE, TRUE, <<>>),
     TexturedInput(TRUE, FALSE, TRUE, <<MeshSubmesh(0, 3)>>),
     TexturedInput(TRUE, TRUE, FALSE, <<MeshSubmesh(0, 3)>>)}
    \cup {TexturedInput(TRUE, TRUE, TRUE, <<MeshSubmesh(r[1], r[2])>>) :
              r \in {<<0, 3>>, <<3, 3>>, <<1, 3>>, <<0, 2>>}}

\* NativeDx12Renderer.cpp lines 1606-1635, SdlRendererBase.cpp lines
\* 337-375: the triangles of the index range [index, indexEnd), in steps of
\* three from its start, whose corners are all in range and valid; a
\* triangle is named by the index it starts at
RECURSIVE AppendTriangles(_, _, _, _, _)
AppendTriangles(projected, indices, index, indexEnd, triangles) ==
    IF index + 2 >= indexEnd THEN triangles
    ELSE LET c == Corners(indices, index)
         IN  IF InRangeCorners(projected, c) /\ \A k \in 1..3 : projected[c[k] + 1]
             THEN AppendTriangles(projected, indices, index + 3, indexEnd,
                                  Append(triangles, index))
             ELSE AppendTriangles(projected, indices, index + 3, indexEnd, triangles)

\* NativeDx12Renderer.cpp lines 1567-1636, SdlRendererBase.cpp lines
\* 332-335 and 379-396: the loop over the submeshes from position i on.  A
\* submesh is skipped when its texture is not there, when it has fewer than
\* three indices and when its range ends past the index list
RECURSIVE SubmeshTriangles(_, _, _, _, _)
SubmeshTriangles(model, submeshes, texture, i, triangles) ==
    IF i > Len(submeshes) THEN triangles
    ELSE LET indexStart == submeshes[i].indexStart
             indexEnd == indexStart + submeshes[i].indexCount
         IN  IF ~texture \/ submeshes[i].indexCount < 3 \/ indexEnd > Len(model.indices)
             THEN SubmeshTriangles(model, submeshes, texture, i + 1, triangles)
             ELSE SubmeshTriangles(model, submeshes, texture, i + 1,
                      AppendTriangles(model.projected, model.indices, indexStart, indexEnd,
                                      triangles))

\* Impl::RenderModelWireframe lines 1492-1750 in a window larger than 1x1:
\* [triangles, textured, lines], the textured triangles drawn,
\* renderedAnyTexturedGeometry and the line segments drawn
NativeRenderModel(model, input, wireOverlayEnabled, failures) ==
    LET lineVertices == NativeLines(model.projected, model.indices, 0, <<>>)
        canRenderTextured == /\ input.hasTexCoords
                             /\ input.texturePaths
                             /\ input.submeshes # <<>>
        collected == IF canRenderTextured
                     THEN SubmeshTriangles(model, input.submeshes, input.texture, 1, <<>>)
                     ELSE <<>>
        texturedTriangles_ == IF "texturedVertexBuffer" \in failures THEN <<>> ELSE collected
        renderedAnyTexturedGeometry == /\ texturedTriangles_ # <<>>
                                       /\ "texturedMap" \notin failures
        shouldDrawWireOverlay == wireOverlayEnabled \/ ~renderedAnyTexturedGeometry
    IN  IF ~IsValid(model) \/ (lineVertices = <<>> /\ ~canRenderTextured)
        THEN [triangles |-> <<>>, textured |-> FALSE, lines |-> <<>>]
        ELSE [triangles |-> IF renderedAnyTexturedGeometry THEN texturedTriangles_ ELSE <<>>,
              textured |-> renderedAnyTexturedGeometry,
              lines |-> IF \/ ~shouldDrawWireOverlay
                           \/ lineVertices = <<>>
                           \/ "wireVertexBuffer" \in failures
                           \/ "wireMap" \in failures
                        THEN <<>> ELSE lineVertices]

\* the textured pass of SdlRendererBase::RenderModelWireframe, lines 326-413
SdlTexturedTriangles(model, input) ==
    LET canRenderTextured == /\ input.texturePaths
                             /\ input.hasTexCoords
                             /\ model.indices # <<>>
    IN  IF ~canRenderTextured THEN <<>>
        ELSE IF input.submeshes # <<>>
        THEN SubmeshTriangles(model, input.submeshes, input.texture, 1, <<>>)
        ELSE IF input.texture
        THEN AppendTriangles(model.projected, model.indices, 0, Len(model.indices), <<>>)
        ELSE <<>>

\* SdlRendererBase::RenderModelWireframe that draws the wireframe whatever
\* the overlay toggle and the textured pass
SdlRenderModelAlways(model, input, wireOverlayEnabled) ==
    IF ~IsValid(model)
    THEN [triangles |-> <<>>, textured |-> FALSE, lines |-> <<>>]
    ELSE [triangles |-> SdlTexturedTriangles(model, input),
          textured |-> SdlTexturedTriangles(model, input) # <<>>,
          lines |-> SdlLines(model.projected, model.indices, 0, <<>>)]

\* SdlRendererBase::RenderModelWireframe lines 287-446 with an output
\* larger than 1x1: [triangles, textured, lines]
SdlRenderModel(model, input, wireOverlayEnabled) ==
    IF ~IsValid(model)
    THEN [triangles |-> <<>>, textured |-> FALSE, lines |-> <<>>]
    ELSE LET texturedTriangles_ == SdlTexturedTriangles(model, input)
             renderedAnyTexturedGeometry == texturedTriangles_ # <<>>
             shouldDrawWireOverlay == wireOverlayEnabled \/ ~renderedAnyTexturedGeometry
         IN  [triangles |-> texturedTriangles_,
              textured |-> renderedAnyTexturedGeometry,
              lines |-> IF shouldDrawWireOverlay
                        THEN SdlLines(model.projected, model.indices, 0, <<>>)
                        ELSE <<>>]

InitMesh ==
    /\ AppAbsent
    /\ ImplConstructed
    /\ RendererFields
    /\ NoCallsExcept({"mesh"})
    /\ \E n \in 0..Cardinality(VertexIndices), m \in 0..MaxIndices :
         \E projected \in [1..n -> BOOLEAN], indices \in [1..m -> VertexIndices] :
             mesh = [projected |-> projected, indices |-> indices]

NothingCalled == ~meshValid.called /\ ~wirePass.done

\* ModelData::IsValid is called
IsValidCall ==
    /\ NothingCalled
    /\ meshValid' = [called |-> TRUE, result |-> IsValid(mesh)]
    /\ UNCHANGED <<appVars, logVars, lifeVars, selectionVars, loaderVars, poolVars, rendererKind, rPhase, frameVars, recSlots, hazard,
                   cacheVars, lastDraw, resolved, texturedTriangles, submitted, mesh,
                   wirePass>>

\* NativeDx12Renderer::Impl::RenderModelWireframe on a renderer whose texture
\* cache holds the textures of the mesh: the call does not wait
NativeWirePass ==
    /\ NothingCalled
    /\ \E input \in TexturedInputs, wireOverlayEnabled \in BOOLEAN,
          failures \in BufferFailures :
         \E r \in {NativeRenderModel(mesh, input, wireOverlayEnabled, failures)} :
             wirePass' = [done |-> TRUE, backend |-> "native", input |-> input,
                          overlay |-> wireOverlayEnabled,
                          bufferOk |-> failures \cap {"wireVertexBuffer", "wireMap"} = {},
                          triangles |-> r.triangles, textured |-> r.textured,
                          lines |-> r.lines]
    /\ UNCHANGED <<appVars, logVars, lifeVars, selectionVars, loaderVars, poolVars, rendererKind, rPhase, frameVars, recSlots, hazard,
                   cacheVars, lastDraw, resolved, texturedTriangles, submitted, mesh,
                   meshValid>>

\* SdlRendererBase::RenderModelWireframe on a renderer whose texture cache
\* holds the textures of the mesh
SdlWirePass ==
    /\ NothingCalled
    /\ \E input \in TexturedInputs, wireOverlayEnabled \in BOOLEAN :
         \E r \in {SdlRenderModel(mesh, input, wireOverlayEnabled)} :
             wirePass' = [done |-> TRUE, backend |-> "sdl", input |-> input,
                          overlay |-> wireOverlayEnabled, bufferOk |-> TRUE,
                          triangles |-> r.triangles, textured |-> r.textured,
                          lines |-> r.lines]
    /\ UNCHANGED <<appVars, logVars, lifeVars, selectionVars, loaderVars, poolVars, rendererKind, rPhase, frameVars, recSlots, hazard,
                   cacheVars, lastDraw, resolved, texturedTriangles, submitted, mesh,
                   meshValid>>

NextMesh ==
    \/ IsValidCall
    \/ NativeWirePass
    \/ SdlWirePass

SpecMesh == InitMesh /\ [][NextMesh]_vars

-----------------------------------------------------------------------------
(* Properties of the wireframe pass and of ModelData::IsValid *)

\* the triangles of the index list, numbered from 0
Triangles == 0..((Len(mesh.indices) \div 3) - 1)

CornerOf(k, c) == mesh.indices[3 * k + c]

CornersInRange(k) == \A c \in 1..3 : CornerOf(k, c) < Len(mesh.projected)

CornerValid(k, c) == mesh.projected[CornerOf(k, c) + 1]

FullyValid(k) == CornersInRange(k) /\ \A c \in 1..3 : CornerValid(k, c)

SegmentsOf(k) ==
    Cardinality({i \in 1..Len(wirePass.lines) : wirePass.lines[i].triangle = k})

\* the edges of triangle k with two valid ends
ValidEdges(k) ==
    Cardinality({e \in {<<1, 2>>, <<2, 3>>, <<3, 1>>} :
                    CornerValid(k, e[1]) /\ CornerValid(k, e[2])})

\* the wireframe pass is due: the mesh is valid and the overlay is on or no
\* textured geometry was drawn
WirePassDue ==
    /\ wirePass.done
    /\ mesh.projected # <<>> /\ mesh.indices # <<>>
    /\ wirePass.overlay \/ ~wirePass.textured

\* the mesh given to the pass has one triangle, whose vertices are all in
\* range and valid, and no texture path
OneValidTriangleNoTextures ==
    /\ wirePass.done
    /\ ~wirePass.input.texturePaths
    /\ Triangles = {0}
    /\ FullyValid(0)

C29_IsValid ==
    meshValid.called =>
        (meshValid.result <=> (Len(mesh.projected) > 0 /\ Len(mesh.indices) > 0))

\* IsValid returned true for a mesh with positions and indices
C29_Witness ==
    /\ meshValid.called
    /\ meshValid.result
    /\ Len(mesh.projected) > 0
    /\ Len(mesh.indices) > 0

-----------------------------------------------------------------------------
(* One renderer object: Initialize, use, Shutdown (NativeDx12Renderer.cpp
   lines 1086-1375, SdlRendererBase.cpp lines 199-266 and 604-629) *)


InitLifecycle ==
    /\ AppAbsent
    /\ ImplConstructed
    /\ NoCalls
    /\ rendererKind \in {"native", "sdl"}
    /\ rPhase = "constructed"
    /\ frameIndex = 0
    /\ backBufferIndex = 0
    /\ nextFenceValue = 1
    /\ frameFence = [i \in 0..(kFrameCount - 1) |-> 0]
    /\ completedValue = 0
    /\ gpuQueue = <<>>
    /\ waiting = NoWait
    /\ frameNo = 0
    /\ recSlots = {}
    /\ hazard = FALSE
    /\ modelTexturePaths = <<>>
    /\ modelTextures = <<>>
    /\ composedTextures = <<>>
    /\ texturesCreated = 0
    /\ lastDraw = NoDraw

lifeUnused == <<appVars, logVars, selectionVars, loaderVars, poolHistory, rendererKind,
                backBufferIndex, frameNo, waiting, recSlots, hazard, lastDraw, resolved,
                texturedTriangles, submitted, mesh, meshValid, wirePass>>

\* NativeDx12Renderer::Initialize on a constructed renderer
LifeNativeInitialize ==
    /\ rendererKind = "native"
    /\ rPhase = "constructed"
    /\ \E acquired \in 0..Len(NativeAcquisitions), com \in BOOLEAN, size \in DescriptorSizes :
         LET r == ImplInitialize(acquired, com)
         IN  /\ owned' = r.owned
             /\ releaseLog' = releaseLog \o r.released
             /\ rPhase' = IF r.ok THEN "idle" ELSE "failed"
             /\ srvHeap' = (Member("srvHeap") \in r.owned)
             /\ srvDescriptorSize' = IF Member("srvHeap") \in r.owned THEN size ELSE 0
    /\ shutdowns' = 0
    /\ UNCHANGED <<lifeUnused, srvNextFreeIndex, srvFreeList, frameIndex,
                   nextFenceValue, frameFence, completedValue, gpuQueue, cacheVars>>

\* SdlRendererBase::Initialize on a constructed renderer
LifeSdlInitialize ==
    /\ rendererKind = "sdl"
    /\ rPhase = "constructed"
    /\ \E step \in {"hint", "create", "geometry", "ok"}, com \in BOOLEAN :
         LET r == SdlRendererInitialize(step, com)
         IN  /\ owned' = r.owned
             /\ releaseLog' = releaseLog \o r.released
             /\ rPhase' = IF r.ok THEN "idle" ELSE "failed"
    /\ shutdowns' = 0
    /\ UNCHANGED <<lifeUnused, srvHeap, srvDescriptorSize, srvNextFreeIndex, srvFreeList,
                   frameIndex, nextFenceValue, frameFence, completedValue, gpuQueue,
                   cacheVars>>

\* Impl::RenderModelWireframe on an initialized native renderer outside a
\* frame, up to its return or to the wait of line 1373
LifeNativeDraw ==
    /\ rendererKind = "native"
    /\ rPhase = "idle"
    /\ texturesCreated < MaxTexturesCreated
    /\ nextFenceValue < MaxIdleFenceValue
    /\ RenderModelWireframeCall("idle")

\* SdlRendererBase::RenderModelWireframe on an initialized SDL renderer, in
\* a frame and outside one
LifeSdlDraw ==
    /\ rendererKind = "sdl"
    /\ rPhase \in {"idle", "frame"}
    /\ texturesCreated < MaxTexturesCreated
    /\ SdlRenderModelWireframeCall(IF rPhase = "frame" THEN "drawn" ELSE "idle")

NextLifecycle ==
    \/ LifeNativeInitialize
    \/ LifeSdlInitialize
    \/ LifeNativeDraw
    \/ NativeRenderModelWireframeResume
    \/ GpuStep
    \/ LifeSdlDraw
    \/ SdlBeginFrame
    \/ SdlEndFrame
    \/ NativeShutdown
    \/ NativeShutdownResume
    \/ SdlShutdown

SpecLifecycle == InitLifecycle /\ [][NextLifecycle]_vars

\* the fields of the renderer object and the resources it holds
RendererState ==
    <<owned, srvHeap, srvDescriptorSize, srvNextFreeIndex, srvFreeList, frameIndex,
      nextFenceValue, frameFence, modelTexturePaths, modelTextures, composedTextures>>

NoDuplicates(q) == \A i, j \in 1..Len(q) : q[i] = q[j] => i = j

\* C24: Shutdown of a renderer can be called in every lifecycle state
\* (never initialized, partially initialized, initialized, already shut
\* down): no resource is ever released twice, after it the renderer holds
\* nothing, and a Shutdown that directly follows a Shutdown releases nothing
\* and leaves the renderer's state unchanged
C24_ShutdownIdempotent ==
    [][shutdowns' = shutdowns + 1 =>
         /\ NoDuplicates(releaseLog')
         /\ owned' = {}
         /\ modelTextures' = <<>> /\ composedTextures' = <<>>
         /\ (shutdowns >= 1 => (releaseLog' = releaseLog /\ RendererState' = RendererState))]_vars

\* a renderer that was initialized and has drawn a textured model was shut
\* down twice in a row
C24_Witness ==
    /\ shutdowns = 2
    /\ rPhase = "shutdown"
    /\ \E i \in 1..Len(releaseLog) : releaseLog[i].kind = "texture"
    /\ \E i \in 1..Len(releaseLog) : releaseLog[i].kind \in {"device", "renderer"}

-----------------------------------------------------------------------------
(* The status line after startup (Application.cpp lines 94-105, 193-212) *)

\* the two texts CreateRenderer gives statusMessage_ when a backend other
\* than the first one tried was selected (lines 198 and 203)
FallbackStatuses ==
    {<<"DirectX 12 failed, using Vulkan fallback.">>,
     <<"Hardware backends unavailable, using software fallback renderer.">>}

\* auto-detect ended on a backend other than the first one tried
SelectedAfterFailure ==
    /\ AutoDetect
    /\ Len(attempts) >= 2
    /\ LastAttempt.ok
    /\ fallbackCount = 0

\* C25: when auto-detect ends on a backend other than the first one tried,
\* the status line tells of the fallback when CreateRenderer returns, and it
\* still does when Initialize has completed and the first frame's UI is
\* about to be drawn
C25_FallbackStatusKept ==
    (SelectedAfterFailure /\ (pc = "init_imgui" \/ (pc = "loop" /\ frameCounter_ = 0))) =>
        statusMessage_ \in FallbackStatuses

-----------------------------------------------------------------------------
(* RendererBackendSelection.cpp: its three functions called on their own *)

\* the letter cases of one character
Cases(c) ==
    {c} \cup {UpperCase[k] : k \in {i \in 1..Len(LowerCase) : LowerCase[i] = c}}
        \cup {LowerCase[k] : k \in {i \in 1..Len(UpperCase) : UpperCase[i] = c}}

\* every upper/lower-case spelling of a text
RECURSIVE Spellings(_)
Spellings(text) ==
    IF text = <<>> THEN {<<>>}
    ELSE {<<c>> \o rest : c \in Cases(Head(text)), rest \in Spellings(Tail(text))}

\* texts that are not a backend name: the empty string, prefixes, names
\* with a character more or less, other words
OtherTexts ==
    {<<>>, <<"d","x">>, <<"d","x","1","1">>, <<"d","x","1","2"," ">>, <<" ","d","x","1","2">>,
     <<"d","x","-","1","2">>, <<"v","u","l","k","a">>, <<"v","u","l","k","a","n","1">>,
     <<"s","o","f","t">>, <<"s","o","f","t","w","a","r","e","s">>, <<"m","e","t","a","l">>,
     <<"a","u","t","o">>, <<"n","u","l","l","o","p","t">>, <<"u","n","k","n","o","w","n">>,
     <<"0">>, <<" ">>}

ParseInputs ==
    UNION {Spellings(text) : text \in {<<"d","x","1","2">>, <<"v","u","l","k","a","n">>,
                                        <<"s","o","f","t","w","a","r","e">>} \cup OtherTexts}

InitSelection ==
    /\ AppAbsent
    /\ ImplConstructed
    /\ NoCallsExcept({"selection"})
    /\ RendererFields
    /\ \/ \E text \in ParseInputs : selection = SelectionCall("Parse", text, "nullopt")
       \/ \E requested \in RendererBackend \cup {"nullopt"} :
            selection = SelectionCall("Build", <<>>, requested)
       \/ \E backend \in RendererBackend : selection = SelectionCall("Name", <<>>, backend)

selectionUnused == <<appVars, poolVars, rendererKind, rPhase, frameVars, recSlots, hazard,
                     cacheVars, lastDraw, resolved, texturedTriangles, submitted, mesh,
                     meshValid, wirePass, logVars, lifeVars, loaderVars>>

\* ParseRendererBackend(text)
ParseCall ==
    /\ selection.fn = "Parse"
    /\ ~selection.done
    /\ selection' = [selection EXCEPT !.done = TRUE,
                                      !.parsed = ParseRendererBackend(selection.text)]
    /\ UNCHANGED selectionUnused

\* BuildRendererAttemptOrder(requested)
BuildCall ==
    /\ selection.fn = "Build"
    /\ ~selection.done
    /\ selection' = [selection EXCEPT !.done = TRUE,
                                      !.order = BuildRendererAttemptOrder(selection.backend)]
    /\ UNCHANGED selectionUnused

\* RendererBackendName(backend)
NameCall ==
    /\ selection.fn = "Name"
    /\ ~selection.done
    /\ selection' = [selection EXCEPT !.done = TRUE,
                                      !.name = RendererBackendName(selection.backend)]
    /\ UNCHANGED selectionUnused

\* ParseRendererBackend on the name RendererBackendName returned
ReparseCall ==
    /\ selection.fn = "Name"
    /\ selection.done
    /\ selection.reparsed = "none"
    /\ selection' = [selection EXCEPT !.reparsed = ParseRendererBackend(selection.name)]
    /\ UNCHANGED selectionUnused

NextSelection ==
    \/ ParseCall
    \/ BuildCall
    \/ NameCall
    \/ ReparseCall

SpecSelection == InitSelection /\ [][NextSelection]_vars

\* C26: BuildRendererAttemptOrder(nullopt) is exactly [Dx12, Vulkan,
\* Software], and BuildRendererAttemptOrder(X) is exactly the one-element
\* list [X] for every backend X
C26_AttemptOrder ==
    (selection.fn = "Build" /\ selection.done) =>
        IF selection.backend = "nullopt"
        THEN selection.order = <<"Dx12", "Vulkan", "Software">>
        ELSE selection.order = <<selection.backend>>

C26_Witness ==
    /\ selection.fn = "Build"
    /\ selection.done
    /\ selection.backend = "Vulkan"
    /\ Len(selection.order) = 1

\* the text spells the name in some mix of upper and lower case
SpelledAs(text, name) ==
    /\ Len(text) = Len(name)
    /\ \A i \in 1..Len(name) : SpellsChar(text[i], name[i])

\* C27: ParseRendererBackend returns Dx12, Vulkan or Software for every
\* upper/lower-case spelling of "dx12", "vulkan" or "software", and no value
\* for every other string, the empty string included
C27_ParseCaseInsensitive ==
    (selection.fn = "Parse" /\ selection.done) =>
        selection.parsed =
            (IF SpelledAs(selection.text, <<"d","x","1","2">>) THEN "Dx12"
             ELSE IF SpelledAs(selection.text, <<"v","u","l","k","a","n">>) THEN "Vulkan"
             ELSE IF SpelledAs(selection.text, <<"s","o","f","t","w","a","r","e">>)
                  THEN "Software"
             ELSE "nullopt")

C27_Witness ==
    /\ selection.fn = "Parse"
    /\ selection.done
    /\ selection.text = <<"s","o","F","T","w","a","R","e">>
    /\ selection.parsed = "Software"

\* C28: RendererBackendName gives "dx12", "vulkan" and "software" for Dx12,
\* Vulkan and Software, the three names are pairwise distinct, and
\* ParseRendererBackend of the name of a backend gives that backend back
C28_NameRoundTrip ==
    (selection.fn = "Name" /\ selection.done) =>
        /\ selection.name =
               (CASE selection.backend = "Dx12" -> <<"d","x","1","2">>
                  [] selection.backend = "Vulkan" -> <<"v","u","l","k","a","n">>
                  [] selection.backend = "Software" -> <<"s","o","f","t","w","a","r","e">>)
        /\ \A other \in RendererBackend \ {selection.backend} :
               RendererBackendName(other) # selection.name
        /\ (selection.reparsed # "none" => selection.reparsed = selection.backend)

C28_Witness ==
    /\ selection.fn = "Name"
    /\ selection.backend = "Dx12"
    /\ selection.name = <<"d","x","1","2">>
    /\ selection.reparsed = "Dx12"

-----------------------------------------------------------------------------
(* FbxLoader.cpp: LoadModel on an imported scene *)

\* number of meshes of the imported scene
MaxMeshes == 2

\* what resolveMaterialTexturePath gives for the five texture kinds of a
\* material ("" when the material has no such texture), and the opacity
\* lines 172-209 derive from it, in thousandths.  The first is a mesh whose
\* material index is out of range.
Materials ==
    {[diffuse |-> "", opacity |-> "", normal |-> "", emissive |-> "", specular |-> "",
      materialOpacity |-> 1000],
     [diffuse |-> "a.png", opacity |-> "", normal |-> "", emissive |-> "", specular |-> "",
      materialOpacity |-> 500],
     [diffuse |-> "a.png", opacity |-> "m.png", normal |-> "n.png", emissive |-> "",
      specular |-> "a.png", materialOpacity |-> 1000],
     [diffuse |-> "b.png", opacity |-> "", normal |-> "a.png", emissive |-> "e.png",
      specular |-> "", materialOpacity |-> 1200]}

\* the faces of a mesh with two or more vertices: triangles, and lines or
\* points that aiProcess_Triangulate leaves as they are
FaceLists ==
    {<<>>, <<<<0, 1>>>>, <<<<0, 1, 0>>>>, <<<<0, 1, 0>>, <<1>>>>, <<<<0, 1, 1>>, <<1, 0, 1>>>>}

\* scene->mMeshes[i]
AiMesh(present, numVertices, faces, hasTextureCoords, material) ==
    [present |-> present, numVertices |-> numVertices, faces |-> faces,
     hasTextureCoords |-> hasTextureCoords, material |-> material]

AiMeshes ==
    {AiMesh(FALSE, 0, <<>>, FALSE, CHOOSE m \in Materials : m.diffuse = ""),
     AiMesh(TRUE, 0, <<<<0, 1, 0>>>>, FALSE, CHOOSE m \in Materials : m.diffuse = "")}
    \cup {AiMesh(TRUE, 2, faces, uv, material) :
            faces \in FaceLists, uv \in BOOLEAN, material \in Materials}

\* registerTexturePath with an index counted from one
RegisterTexturePathOneBased(texturePaths, texturePath) ==
    IF texturePath = "" THEN [index |-> -1, texturePaths |-> texturePaths]
    ELSE IF \E i \in 1..Len(texturePaths) : texturePaths[i] = texturePath
    THEN [index |-> CHOOSE i \in 1..Len(texturePaths) : texturePaths[i] = texturePath,
          texturePaths |-> texturePaths]
    ELSE [index |-> Len(texturePaths) + 1, texturePaths |-> Append(texturePaths, texturePath)]

\* registerTexturePath (lines 61-75): [index, texturePaths].  textureLookup
\* maps every path of texturePaths to its position.
RegisterTexturePath(texturePaths, texturePath) ==
    IF texturePath = "" THEN [index |-> -1, texturePaths |-> texturePaths]
    ELSE IF \E i \in 1..Len(texturePaths) : texturePaths[i] = texturePath
    THEN [index |-> (CHOOSE i \in 1..Len(texturePaths) : texturePaths[i] = texturePath) - 1,
          texturePaths |-> texturePaths]
    ELSE [index |-> Len(texturePaths), texturePaths |-> Append(texturePaths, texturePath)]

\* lines 133-142: the indices of the triangles of the faces from position i on
RECURSIVE FaceIndices(_, _, _)
FaceIndices(faces, i, baseVertex) ==
    IF i > Len(faces) THEN <<>>
    ELSE (IF Len(faces[i]) # 3 THEN <<>>
          ELSE <<baseVertex + faces[i][1], baseVertex + faces[i][2], baseVertex + faces[i][3]>>)
         \o FaceIndices(faces, i + 1, baseVertex)

\* lines 112-233: the body of the mesh loop for one mesh
LoadMesh(model, meshIndex, aiMesh) ==
    IF ~aiMesh.present \/ aiMesh.numVertices = 0 \/ Len(aiMesh.faces) = 0 THEN model
    ELSE LET baseVertex == Len(model.positions)
             positions == model.positions
                          \o [v \in 1..aiMesh.numVertices |-> <<meshIndex, v - 1>>]
             texCoords == model.texCoords
                          \o [v \in 1..aiMesh.numVertices |->
                                IF aiMesh.hasTextureCoords THEN "uv" ELSE "zero"]
             indexStart == Len(model.indices)
             indices == model.indices \o FaceIndices(aiMesh.faces, 1, baseVertex)
             indexCount == Len(indices) - indexStart
             withGeometry == [model EXCEPT !.positions = positions, !.texCoords = texCoords,
                                           !.indices = indices]
             m == aiMesh.material
             primary == IF model.primaryTexturePath = "" /\ m.diffuse # "" THEN m.diffuse
                        ELSE model.primaryTexturePath
             materialOpacity == Clamp(m.materialOpacity, 0, 1000)
             alphaCutoutEnabled == m.opacity # ""
             r1 == RegisterTexturePath(model.texturePaths, m.diffuse)
             r2 == RegisterTexturePath(r1.texturePaths, m.opacity)
             r3 == RegisterTexturePath(r2.texturePaths, m.normal)
             r4 == RegisterTexturePath(r3.texturePaths, m.emissive)
             r5 == RegisterTexturePath(r4.texturePaths, m.specular)
             submesh == [indexStart |-> indexStart, indexCount |-> indexCount,
                         textureIndex |-> r1.index, opacityTextureIndex |-> r2.index,
                         normalTextureIndex |-> r3.index, emissiveTextureIndex |-> r4.index,
                         specularTextureIndex |-> r5.index, opacity |-> materialOpacity,
                         alphaCutoff |-> IF alphaCutoutEnabled THEN 350 ELSE 0,
                         isTransparent |-> ~alphaCutoutEnabled /\ materialOpacity < 999,
                         alphaCutoutEnabled |-> alphaCutoutEnabled,
                         opacityTextureInverted |-> alphaCutoutEnabled]
         IN  IF indexCount = 0 THEN withGeometry
             ELSE [withGeometry EXCEPT !.primaryTexturePath = primary,
                                       !.texturePaths = r5.texturePaths,
                                       !.submeshes = Append(model.submeshes, submesh)]

RECURSIVE LoadMeshes(_, _, _)
LoadMeshes(model, meshes, meshIndex) ==
    IF meshIndex > Len(meshes) THEN model
    ELSE LoadMeshes(LoadMesh(model, meshIndex - 1, meshes[meshIndex]), meshes, meshIndex + 1)

\* lines 235-250: one submesh over all indices when the loop made none
FallbackSubmesh(model) ==
    IF model.submeshes = <<>> /\ model.indices # <<>>
    THEN LET r == RegisterTexturePath(model.texturePaths, model.primaryTexturePath)
         IN  [model EXCEPT !.texturePaths = r.texturePaths,
                           !.submeshes = <<[indexStart |-> 0, indexCount |-> Len(model.indices),
                                            textureIndex |-> r.index,
                                            opacityTextureIndex |-> -1,
                                            normalTextureIndex |-> -1,
                                            emissiveTextureIndex |-> -1,
                                            specularTextureIndex |-> -1, opacity |-> 1000,
                                            alphaCutoff |-> 0, isTransparent |-> FALSE,
                                            alphaCutoutEnabled |-> FALSE,
                                            opacityTextureInverted |-> FALSE]>>]
    ELSE model

\* FbxLoader::LoadModel: [ok, model].  outModel is the caller's model;
\* a scene that cannot be read leaves it as it was.  NormalizeModel moves
\* the positions and changes no count.
LoadModel(scene, outModel) ==
    IF ~scene.readable THEN [ok |-> FALSE, model |-> outModel]
    ELSE LET model == FallbackSubmesh(LoadMeshes(ClearedModel, scene.meshes, 1))
         IN  [ok |-> IsValid([projected |-> model.positions, indices |-> model.indices]),
              model |-> model]

InitLoader ==
    /\ AppAbsent
    /\ ImplConstructed
    /\ NoCallsExcept({"loaded"})
    /\ RendererFields
    /\ \E readable \in BOOLEAN, n \in 0..MaxMeshes :
         \E meshes \in [1..n -> AiMeshes] :
            loaded = [NotLoaded EXCEPT !.scene = [readable |-> readable, meshes |-> meshes]]

\* FbxLoader::LoadModel into a default-constructed ModelData
LoadModelCall ==
    /\ ~loaded.called
    /\ LET r == LoadModel(loaded.scene, ClearedModel)
       IN  loaded' = [loaded EXCEPT !.called = TRUE, !.ok = r.ok, !.model = r.model]
    /\ UNCHANGED <<appVars, poolVars, rendererKind, rPhase, frameVars, recSlots, hazard,
                   cacheVars, lastDraw, resolved, texturedTriangles, submitted, mesh,
                   meshValid, wirePass, logVars, lifeVars, selectionVars>>

NextLoader == LoadModelCall

SpecLoader == InitLoader /\ [][NextLoader]_vars

TextureIndices(submesh) ==
    {submesh.textureIndex, submesh.opacityTextureIndex, submesh.normalTextureIndex,
     submesh.emissiveTextureIndex, submesh.specularTextureIndex}

\* C30: a model for which LoadModel returned success is valid, has as many
\* texCoords as positions and at least one submesh, every submesh has
\* indexStart + indexCount <= len(indices), and every non-negative texture
\* index of a submesh is a valid index into texturePaths
C30_LoadedModelInvariant ==
    (loaded.called /\ loaded.ok) =>
        LET model == loaded.model
        IN  /\ model.positions # <<>> /\ model.indices # <<>>
            /\ Len(model.texCoords) = Len(model.positions)
            /\ Len(model.submeshes) >= 1
            /\ \A i \in 1..Len(model.submeshes) :
                 /\ model.submeshes[i].indexStart + model.submeshes[i].indexCount
                        <= Len(model.indices)
                 /\ \A t \in TextureIndices(model.submeshes[i]) :
                        t >= 0 => t < Len(model.texturePaths)

\* a scene of two meshes was loaded into two submeshes that share a texture
\* path
C30_Witness ==
    /\ loaded.called
    /\ loaded.ok
    /\ Len(loaded.model.submeshes) = 2
    /\ loaded.model.submeshes[2].indexStart > 0
    /\ loaded.model.submeshes[1].textureIndex >= 0
    /\ \E t \in TextureIndices(loaded.model.submeshes[2]) :
          t >= 0 /\ t \in TextureIndices(loaded.model.submeshes[1])

-----------------------------------------------------------------------------
(* The fence of the native renderer (NativeDx12Renderer.cpp lines 1364-1375,
   1419-1426, 1479-1488) *)

SignalAt(events) == {i \in 1..Len(events) : events[i].e = "signal"}
WaitAt(events) == {i \in 1..Len(events) : events[i].e = "wait"}

\* a call of the renderer has been made, and these are its events up to its
\* return or to its blocking wait
CallMade == deviceLog' # deviceLog /\ rPhase # "waiting"

\* C31: in one initialized lifetime of the native renderer every fence value
\* signalled on the queue, by EndFrame or by WaitForGpuIdle, is greater
\* than every value signalled before it, and the fence value stored on a
\* frame slot is the value signalled by the EndFrame that submitted the slot
C31_FenceMonotonic ==
    [][rendererKind = "native" =>
          /\ CallMade =>
               /\ \A i \in SignalAt(deviceLog') :
                    /\ \A v \in signalled : v < deviceLog'[i].value
                    /\ \A j \in SignalAt(deviceLog') :
                         j < i => deviceLog'[j].value < deviceLog'[i].value
               /\ \A i \in SignalAt(deviceLog') :
                    deviceLog'[i].by = "EndFrame" =>
                        frameFence'[deviceLog'[i].slot] = deviceLog'[i].value
          /\ \A slot \in 0..(kFrameCount - 1) :
               (frameFence'[slot] # frameFence[slot] /\ rPhase' # "shutdown") =>
                   /\ CallMade
                   /\ \E i \in SignalAt(deviceLog') :
                        /\ deviceLog'[i].by = "EndFrame"
                        /\ deviceLog'[i].slot = slot]_vars

\* a frame has been submitted whose fence value is the third value
\* signalled or a later one, after an idle wait had signalled one
C31_Witness ==
    /\ rendererKind = "native"
    /\ rPhase = "idle"
    /\ \E i \in SignalAt(deviceLog) :
         /\ deviceLog[i].by = "EndFrame"
         /\ deviceLog[i].value >= 3
         /\ frameFence[deviceLog[i].slot] = deviceLog[i].value
         /\ \E slot \in 0..(kFrameCount - 1) :
              /\ slot # deviceLog[i].slot
              /\ frameFence[slot] > 0
              /\ frameFence[slot] < deviceLog[i].value - 1

\* the frames in which the application has a model to draw
LiveDrawFrames == {2}

\* Impl::RenderModelWireframe in a frame in which there is a model
LiveRenderModelWireframe ==
    /\ frameNo \in LiveDrawFrames
    /\ NativeRenderModelWireframe

\* The frame loop of a native renderer, with and without a model to draw,
\* the idle wait of Application::ShutdownImGui and Shutdown
NextRendererLive ==
    \/ NativeBeginFrame
    \/ NativeBeginFrameResume
    \/ LiveRenderModelWireframe
    \/ NativeRenderModelWireframeResume
    \/ NativeEndFrame
    \/ GpuStep
    \/ NativeWaitForGpuIdle
    \/ NativeWaitForGpuIdleResume
    \/ NativeShutdown
    \/ NativeShutdownResume

\* an initialized native renderer
InitRendererLive == InitRenderer /\ rendererKind = "native"

\* The GPU completes the work submitted to it, a call whose wait is over
\* goes on to its return, and the frame loop ends every frame it began
SpecRendererLive ==
    /\ InitRendererLive
    /\ [][NextRendererLive]_vars
    /\ WF_vars(GpuStep)
    /\ WF_vars(NativeBeginFrameResume)
    /\ WF_vars(NativeRenderModelWireframeResume)
    /\ WF_vars(NativeWaitForGpuIdleResume)
    /\ WF_vars(NativeShutdownResume)
    /\ WF_vars(NativeEndFrame)

\* every blocking wait of the latest call was on a value signalled before it
WaitsOnSignalled ==
    \A i \in WaitAt(deviceLog) :
        \/ deviceLog[i].value \in signalled \ SignalValues(deviceLog)
        \/ \E j \in SignalAt(deviceLog) : j < i /\ deviceLog[j].value = deviceLog[i].value

\* C32: every blocking wait of the native renderer, in BeginFrame and in
\* WaitForGpuIdle, is on a fence value already signalled on the command
\* queue; when the GPU completes all submitted work no wait hangs and every
\* begun frame reaches the end of EndFrame: a renderer that is inside a
\* wait or a frame comes to rest, between frames or shut down
C32_WaitsTerminate ==
    /\ [](rendererKind = "native" => WaitsOnSignalled)
    /\ ((rendererKind = "native" /\ rPhase \in {"waiting", "frame", "drawn"})
           ~> (rPhase \in {"idle", "shutdown"}))

\* RenderModelWireframe, in a frame that follows a submitted frame, has been
\* through the blocking wait of WaitForGpuIdle for the value it signalled,
\* has reloaded the textures and has returned
C32_Witness ==
    /\ rendererKind = "native"
    /\ rPhase = "drawn"
    /\ modelTextures # <<>>
    /\ WaitAt(deviceLog) # {}
    /\ \A i \in WaitAt(deviceLog) :
          /\ deviceLog[i].by = "WaitForGpuIdle"
          /\ deviceLog[i].value \in signalled
          /\ completedValue >= deviceLog[i].value
    /\ \E slot \in 0..(kFrameCount - 1) :
          frameFence[slot] > 0 /\ frameFence[slot] \in signalled

-----------------------------------------------------------------------------
(* Releasing the cached textures of the native renderer
   (NativeDx12Renderer.cpp lines 857-889, 1306-1309) *)

ReleaseAt(events) == {i \in 1..Len(events) : events[i].e = "release"}

\* the idle wait before event i of a call that no submission follows
IdleBefore(events, i) ==
    {j \in 1..(i - 1) :
        /\ events[j].e = "idle"
        /\ \A k \in (j + 1)..(i - 1) : events[k].e # "submit"}

\* C33: in the native renderer every release of cached model textures and
\* of their descriptor slots, on a change of the texture paths and in
\* Shutdown, comes after a wait for the GPU to be idle that has returned,
\* and nothing is submitted to the queue between that wait and the release
C33_ReleaseAfterIdle ==
    rendererKind = "native" =>
        \A i \in ReleaseAt(deviceLog) :
            deviceLog[i].value > 0 =>
                /\ IdleBefore(deviceLog, i) # {}
                /\ ~ \E k \in 1..Len(gpuQueue) : gpuQueue[k].kind = "commands"

\* a frame whose texture paths differ from the cached ones has released
\* the textures of the frame before, which had been submitted
C33_Witness ==
    /\ rendererKind = "native"
    /\ rPhase = "drawn"
    /\ \E i \in ReleaseAt(deviceLog) :
         /\ deviceLog[i].value > 0
         /\ deviceLog[i].by = "EnsureModelTexturesUploaded"
    /\ \E slot \in 0..(kFrameCount - 1) : frameFence[slot] > 0

-----------------------------------------------------------------------------
(* The SDL cache: base textures and composed entries (SdlRendererBase.cpp
   lines 251-254, 449-466, 604-629) *)

TextureIds(textures) == {textures[i].id : i \in 1..Len(textures)}
ComposedIds(composed) == {composed[i].texture : i \in 1..Len(composed)}

\* a composed entry made from the base textures that are cached now: its
\* color index selects one of them, whose surface exists and which was
\* loaded before the entry was synthesized
FromCachedTextures(entry) ==
    /\ entry.key.colorTextureIndex >= 0
    /\ entry.key.colorTextureIndex < Len(modelTextures)
    /\ modelTextures[entry.key.colorTextureIndex + 1].surface
    /\ \A id \in TextureIds(modelTextures) : id < entry.texture

\* C34: in the SDL renderers the base textures and the composed entries
\* are destroyed together: a call that releases cached base textures (the
\* path list changed or is empty, Shutdown) leaves no composed entry of
\* before, so every composed entry was synthesized from the base textures
\* cached now and its colorTextureIndex is a valid index into them
C34_DestroyedTogether ==
    /\ [](rendererKind = "sdl" =>
             \A i \in 1..Len(composedTextures) : FromCachedTextures(composedTextures[i]))
    /\ [][(rendererKind = "sdl"
             /\ TextureIds(modelTextures) \ TextureIds(modelTextures') # {}) =>
                 ComposedIds(composedTextures) \cap ComposedIds(composedTextures') = {}]_vars

\* a composed entry synthesized from base textures that were loaded after
\* an earlier set of base textures had been released
C34_Witness ==
    /\ rendererKind = "sdl"
    /\ composedTextures # <<>>
    /\ FromCachedTextures(composedTextures[1])
    /\ \A id \in TextureIds(modelTextures) : id > 1

-----------------------------------------------------------------------------
(* NativeDx12Renderer.cpp lines 1638-1711: the draw calls of the textured
   pass *)

\* srvGpuDescriptor.ptr of the cached textures a triangle may refer to
TextureHandles == {1, 2}

\* a TexturedTriangle of lines 1553-1562 with its texture handles; the
\* triangles of the list lie at two depths in turn
BatchTriangle(id, attr) ==
    [id |-> id, isTransparent |-> attr[1], depthKey |-> id % 2,
     colorTextureHandle |-> attr[2], opacityTextureHandle |-> attr[3]]

BatchTriangleLists ==
    UNION {{[i \in 1..n |-> BatchTriangle(i, attrs[i])] :
               attrs \in [1..n -> BOOLEAN \X TextureHandles \X TextureHandles]} :
           n \in 0..MaxPrimitives}

\* one call recorded on the command list
Command(cmd, a, b) == [cmd |-> cmd, a |-> a, b |-> b]

\* the inner loop of lines 1688-1693 that compares the color handle only
RECURSIVE EndOfBatchColorOnly(_, _, _)
EndOfBatchColorOnly(triangles, first, end) ==
    IF /\ end <= Len(triangles)
       /\ triangles[end].colorTextureHandle = triangles[first].colorTextureHandle
    THEN EndOfBatchColorOnly(triangles, first, end + 1)
    ELSE end

\* lines 1687-1693: endTriangleInBatch for the batch that starts at first.
\* Positions count from 1 and end is one past the last triangle of the batch.
RECURSIVE EndOfBatch(_, _, _)
EndOfBatch(triangles, first, end) ==
    IF /\ end <= Len(triangles)
       /\ triangles[end].colorTextureHandle = triangles[first].colorTextureHandle
       /\ triangles[end].opacityTextureHandle = triangles[first].opacityTextureHandle
       /\ triangles[end].isTransparent = triangles[first].isTransparent
    THEN EndOfBatch(triangles, first, end + 1)
    ELSE end

\* lines 1680-1708: the commands recorded for the batches from first on;
\* pipeline: "none" before the first SetPipelineState, then the state set
RECURSIVE DrawBatches(_, _, _)
DrawBatches(triangles, first, pipeline) ==
    IF first > Len(triangles) THEN <<>>
    ELSE LET end == EndOfBatch(triangles, first, first + 1)
             batchIsTransparent == triangles[first].isTransparent
             wanted == IF batchIsTransparent THEN "transparent" ELSE "opaque"
         IN  (IF pipeline # wanted
              THEN <<Command("SetPipelineState", wanted, 0)>> ELSE <<>>)
             \o <<Command("SetGraphicsRootDescriptorTable", 0,
                          triangles[first].colorTextureHandle),
                  Command("SetGraphicsRootDescriptorTable", 1,
                          triangles[first].opacityTextureHandle),
                  Command("DrawInstanced", (end - first) * 3, (first - 1) * 3)>>
             \o DrawBatches(triangles, end, wanted)

\* RenderModelWireframe has collected the textured triangles of the mesh
InitBatch ==
    /\ AppAbsent
    /\ ImplConstructed
    /\ RendererFields
    /\ NoCallsExcept({"texturedTriangles"})
    /\ texturedTriangles \in BatchTriangleLists

\* NativeDx12Renderer.cpp lines 1638-1711: sort, fill the vertex buffer in
\* sorted order and record the batches.  Nothing is recorded when
\* EnsureTexturedVertexBuffer or Map fails.
NativeDrawBatches ==
    /\ ~submitted.done
    /\ \E out \in StdSort(NativeLess, texturedTriangles),
          bufferOk \in (IF texturedTriangles = <<>> THEN {TRUE} ELSE BOOLEAN) :
         submitted' = [done |-> TRUE, backend |-> "native", bufferOk |-> bufferOk,
                       order |-> IF bufferOk THEN out ELSE <<>>,
                       commands |-> IF bufferOk THEN DrawBatches(out, 1, "none") ELSE <<>>]
    /\ UNCHANGED <<appVars, logVars, lifeVars, selectionVars, loaderVars, poolVars, rendererKind, rPhase, frameVars, recSlots, hazard,
                   cacheVars, lastDraw, resolved, texturedTriangles, mesh, meshValid,
                   wirePass>>

NextBatch == NativeDrawBatches

SpecBatch == InitBatch /\ [][NextBatch]_vars

\* the positions of the draw calls on the command list
DrawAt(commands) == {i \in 1..Len(commands) : commands[i].cmd = "DrawInstanced"}
BindAt(commands, table) ==
    {i \in 1..Len(commands) :
        commands[i].cmd = "SetGraphicsRootDescriptorTable" /\ commands[i].a = table}

\* the triangles of the vertex buffer, counted from 1, that a draw call covers
DrawnBy(command) ==
    {t \in 1..Len(submitted.order) :
        /\ (t - 1) * 3 >= command.b
        /\ (t - 1) * 3 + 3 <= command.b + command.a}

BatchKey(triangle) ==
    <<triangle.colorTextureHandle, triangle.opacityTextureHandle, triangle.isTransparent>>

-----------------------------------------------------------------------------
(* The transparency flag of a textured triangle (SdlRendererBase.cpp lines
   355-358, 380-396; NativeDx12Renderer.cpp lines 1567-1596) *)

\* submeshes whose color texture is texture 0 of the cache; the opacity
\* texture is none, texture 1 or one past the cache
FlagSubmeshes ==
    {[Submesh(0, o, opacity) EXCEPT !.isTransparent = t, !.alphaCutoutEnabled = c] :
        o \in {-1, 1, 5}, opacity \in {500, 998, 999, 1000, 1500}, t \in BOOLEAN, c \in BOOLEAN}

\* the two cached textures, uploaded, with hasTransparency as decoded
\* (NativeDx12Renderer.cpp lines 903-906)
FlagTextures ==
    {<<[texture |-> TRUE, hasTransparency |-> a], [texture |-> TRUE, hasTransparency |-> b]>> :
        a \in BOOLEAN, b \in BOOLEAN}

\* the flag of lines 1589-1594 without the term of the opacity texture
NativeTriangleIsTransparentColorOnly(submesh, textures) ==
    \/ submesh.alphaCutoutEnabled
    \/ submesh.isTransparent
    \/ textures[submesh.textureIndex + 1].hasTransparency
    \/ Clamp(submesh.opacity, 0, 1000) < 999

\* NativeDx12Renderer.cpp lines 1577-1594: submeshIsTransparent, which
\* every triangle of the submesh gets (line 1630)
NativeTriangleIsTransparent(submesh, textures) ==
    LET texture == textures[submesh.textureIndex + 1]
        hasOpacityTexture ==
            /\ submesh.opacityTextureIndex >= 0
            /\ submesh.opacityTextureIndex < Len(textures)
            /\ textures[submesh.opacityTextureIndex + 1].texture
        submeshOpacity == Clamp(submesh.opacity, 0, 1000)
    IN  \/ submesh.alphaCutoutEnabled
        \/ submesh.isTransparent
        \/ texture.hasTransparency
        \/ (hasOpacityTexture /\ textures[submesh.opacityTextureIndex + 1].hasTransparency)
        \/ submeshOpacity < 999

\* SdlRendererBase.cpp lines 389-395 and 337, 358: submeshIsTransparent as
\* passed to appendTriangles, and the flag each triangle gets there
SdlTriangleIsTransparent(submesh) ==
    LET submeshUsesOpacityTexture == submesh.opacityTextureIndex >= 0
        submeshIsTransparent ==
            \/ submesh.isTransparent
            \/ submesh.alphaCutoutEnabled
            \/ submeshUsesOpacityTexture
            \/ submesh.opacity < 999
        clampedOpacity == Clamp(submesh.opacity, 0, 1000)
    IN  submeshIsTransparent \/ clampedOpacity < 999

\* a renderer that has uploaded the two textures of a mesh
InitFlags ==
    /\ AppAbsent
    /\ ImplConstructed
    /\ RendererFields
    /\ NoCalls

\* NativeDx12Renderer.cpp lines 1567-1632: a triangle of a submesh is built
NativeBuildTriangle ==
    /\ texturedTriangles = <<>>
    /\ \E submesh \in FlagSubmeshes, textures \in FlagTextures :
         texturedTriangles' =
             <<[backend |-> "native", submesh |-> submesh, textures |-> textures,
                isTransparent |-> NativeTriangleIsTransparent(submesh, textures)]>>
    /\ UNCHANGED <<appVars, logVars, lifeVars, selectionVars, loaderVars, poolVars, rendererKind, rPhase, frameVars, recSlots, hazard,
                   cacheVars, lastDraw, resolved, submitted, mesh, meshValid, wirePass>>

\* SdlRendererBase.cpp lines 380-396: a triangle of a submesh is built; the
\* SDL texture cache keeps no transparency of its images
SdlBuildTriangle ==
    /\ texturedTriangles = <<>>
    /\ \E submesh \in FlagSubmeshes, textures \in FlagTextures :
         texturedTriangles' =
             <<[backend |-> "sdl", submesh |-> submesh, textures |-> textures,
                isTransparent |-> SdlTriangleIsTransparent(submesh)]>>
    /\ UNCHANGED <<appVars, logVars, lifeVars, selectionVars, loaderVars, poolVars, rendererKind, rPhase, frameVars, recSlots, hazard,
                   cacheVars, lastDraw, resolved, submitted, mesh, meshValid, wirePass>>

NextFlags ==
    \/ NativeBuildTriangle
    \/ SdlBuildTriangle

SpecFlags == InitFlags /\ [][NextFlags]_vars

\* the terms of the flag
UsesOpacityTexture(p) == p.submesh.opacityTextureIndex >= 0
ColorHint(p) == p.textures[p.submesh.textureIndex + 1].hasTransparency
OpacityHint(p) ==
    /\ p.submesh.opacityTextureIndex + 1 \in 1..Len(p.textures)
    /\ p.textures[p.submesh.opacityTextureIndex + 1].hasTransparency

-----------------------------------------------------------------------------
(* SdlRendererBase::ResolveSubmeshTexture (SdlRendererBase.cpp lines
   502-537): what one call returns *)

\* submeshes whose color texture index is below, inside and past the cache
\* of two textures
ResolveSubmeshInputs ==
    {[Submesh(t, o, opacity) EXCEPT !.alphaCutoutEnabled = cutout,
                                    !.opacityTextureInverted = inverted] :
        t \in {-1, 0, 1, 2}, o \in {-1, 1}, opacity \in {500, 998, 999, 1000},
        cutout \in BOOLEAN, inverted \in BOOLEAN}

\* An SDL renderer whose UpdateModelTextures has loaded the two texture
\* files of a mesh, one of which may have failed to decode or may have a
\* surface and no texture, and that may have resolved one submesh before
InitResolve ==
    /\ AppAbsent
    /\ ImplConstructed
    /\ NoCalls
    /\ rendererKind = "sdl"
    /\ rPhase = "frame"
    /\ frameIndex = 0
    /\ backBufferIndex = 0
    /\ nextFenceValue = 1
    /\ frameFence = [i \in 0..(kFrameCount - 1) |-> 0]
    /\ completedValue = 0
    /\ gpuQueue = <<>>
    /\ waiting = NoWait
    /\ frameNo = 1
    /\ recSlots = {}
    /\ hazard = FALSE
    /\ \E failing \in SdlLoadFailures, before \in ResolveSubmeshInputs :
         LET u == UpdateModelTextures(<<>>, <<>>, <<>>, 0,
                                      [texturePaths |-> <<"a.png", "b.png">>,
                                       hasTexCoords |-> TRUE, submeshes |-> <<>>],
                                      failing)
             r == ResolveSubmeshTexture(u.textures, u.composed, u.created, before, FALSE)
         IN  /\ modelTexturePaths = u.paths
             /\ modelTextures = u.textures
             /\ composedTextures = r.composed
             /\ texturesCreated = r.created
    /\ lastDraw = NoDraw

\* RenderModelWireframe line 382: one call of ResolveSubmeshTexture;
\* createOk: SDL_CreateSurface and SDL_CreateTextureFromSurface succeed if
\* CreateComposedTexture gets to them
ResolveOnce ==
    /\ resolved = <<>>
    /\ \E submesh \in ResolveSubmeshInputs, createOk \in BOOLEAN :
         LET r == ResolveSubmeshTexture(modelTextures, composedTextures, texturesCreated,
                                        submesh, ~createOk)
         IN  /\ composedTextures' = r.composed
             /\ texturesCreated' = r.created
             /\ resolved' = <<[submesh |-> submesh, texture |-> r.texture,
                               createOk |-> createOk,
                               hit |-> \E i \in 1..Len(composedTextures) :
                                          composedTextures[i].key = ComposedTextureKey(submesh),
                               added |-> Len(r.composed) > Len(composedTextures)]>>
    /\ UNCHANGED <<appVars, logVars, lifeVars, selectionVars, loaderVars, poolVars, rendererKind, rPhase, frameVars, recSlots, hazard,
                   modelTexturePaths, modelTextures, lastDraw, texturedTriangles, submitted,
                   mesh, meshValid, wirePass>>

NextResolve == ResolveOnce

SpecResolve == InitResolve /\ [][NextResolve]_vars

ColorIndexInCache(submesh) ==
    submesh.textureIndex >= 0 /\ submesh.textureIndex < Len(modelTextures)

\* the SDL_Texture of the base color texture, 0 when it is null
BaseTexture(submesh) ==
    IF modelTextures[submesh.textureIndex + 1].texture
    THEN modelTextures[submesh.textureIndex + 1].id ELSE 0

\* C38 as stated: the base texture is returned and no entry is added
\* exactly when the submesh needs no composition; no texture is returned
\* for a color index outside the cache
C38_Original ==
    \A i \in 1..Len(resolved) :
        LET r == resolved[i]
        IN  IF ~ColorIndexInCache(r.submesh) THEN r.texture = 0
            ELSE (r.texture = BaseTexture(r.submesh) /\ ~r.added)
                     <=> ~WantsComposition(r.submesh)

\* C38: for a color index outside the cache ResolveSubmeshTexture returns
\* no texture and adds no entry.  For one inside it returns the base color
\* texture itself and adds no entry when the submesh needs no composition,
\* and also when it needs one, no cached entry has its key and the composed
\* texture cannot be created; when it needs one and an entry has its key or
\* the composed texture is created, it returns that composed texture, which
\* is not the base texture, and adds an entry only in the second case
C38_ResolveBase ==
    \A i \in 1..Len(resolved) :
        LET r == resolved[i]
            surface == modelTextures[r.submesh.textureIndex + 1].surface
            base == BaseTexture(r.submesh)
        IN  IF ~ColorIndexInCache(r.submesh) THEN r.texture = 0 /\ ~r.added
            ELSE IF ~WantsComposition(r.submesh) THEN r.texture = base /\ ~r.added
            ELSE IF r.hit THEN r.texture # base /\ r.texture # 0 /\ ~r.added
            ELSE IF surface /\ r.createOk THEN r.texture # base /\ r.texture # 0 /\ r.added
            ELSE r.texture = base /\ ~r.added

\* a submesh that needs composition got the base texture, which exists,
\* because the composed texture could not be created
C38_Witness ==
    /\ Len(resolved) = 1
    /\ ColorIndexInCache(resolved[1].submesh)
    /\ WantsComposition(resolved[1].submesh)
    /\ resolved[1].texture = BaseTexture(resolved[1].submesh)
    /\ resolved[1].texture # 0
    /\ ~resolved[1].added

-----------------------------------------------------------------------------
(* When the wireframe pass is drawn (SdlRendererBase.cpp lines 415-421;
   NativeDx12Renderer.cpp lines 1721-1735) *)

\* every line segment the backend has for the mesh
AllSegments ==
    IF wirePass.backend = "sdl" THEN SdlLines(mesh.projected, mesh.indices, 0, <<>>)
    ELSE NativeLines(mesh.projected, mesh.indices, 0, <<>>)

-----------------------------------------------------------------------------
(* The UI overlay and its renderer (Application.cpp lines 353-371, 489-512,
   743-749) *)

OverlayShutdownAt(events) ==
    {i \in 1..Len(events) :
        events[i].e \in {"ImGui_ImplDX12_Shutdown", "ImGui_ImplSDLRenderer3_Shutdown"}}
RendererShutdownAt(events) ==
    {i \in 1..Len(events) : events[i].e = "Renderer::Shutdown"}
OverlayInitAt(events) ==
    {i \in 1..Len(events) : events[i].e = "InitializeImGui"}

\* the step completes a teardown: the end of Application::Shutdown or the
\* teardown of the live fallback
TeardownStep == pc' \in {"done", "fallback_reinit"} /\ pc' # pc

\* C40: the UI overlay is shut down before the renderer it was initialized
\* against, in the live fallback and in Application::Shutdown, and
\* ShutdownImGui does nothing when the overlay is not initialized; the
\* overlay is initialized again only after a new renderer was initialized
\* successfully
C40_OverlayBeforeRenderer ==
    /\ [](imguiInitialized_ => (renderer_ # "None" /\ renderer_ \in live))
    /\ [][TeardownStep =>
            /\ ~imguiInitialized_'
            /\ IF imguiInitialized_
               THEN \E i \in OverlayShutdownAt(overlayLog') :
                        /\ overlayLog'[i].renderer = renderer_
                        /\ \A j \in RendererShutdownAt(overlayLog') : i < j
               ELSE OverlayShutdownAt(overlayLog') = {}
            /\ renderer_ # "None" =>
                   \E j \in RendererShutdownAt(overlayLog') : overlayLog'[j].renderer = renderer_
            /\ \A i \in 1..Len(overlayLog') : overlayLog'[i].e # "ImGui::DestroyContext"
                   \/ \A j \in RendererShutdownAt(overlayLog') : i < j]_vars
    /\ [][(imguiInitialized_ /\ ~imguiInitialized_') =>
            \E i \in OverlayShutdownAt(overlayLog') :
                /\ overlayLog'[i].renderer = renderer_
                /\ renderer_ \in live
                /\ \A j \in RendererShutdownAt(overlayLog') : i < j]_vars
    /\ [][(pc = "fallback_reinit" /\ pc' # pc) =>
            /\ \A i \in OverlayInitAt(overlayLog') :
                   \E j \in 1..(i - 1) :
                       /\ overlayLog'[j] = OverlayEvent("Renderer::Initialize",
                                                        overlayLog'[i].renderer, TRUE)
                       /\ renderer_' = overlayLog'[i].renderer
            /\ imguiInitialized_' => OverlayInitAt(overlayLog') # {}]_vars

\* the live fallback has shut down the overlay and then the accelerated
\* renderer, initialized the software renderer and the overlay on it, and
\* the application has then shut both down
C40_Witness ==
    /\ pc = "done"
    /\ fallbackResult = "switched"
    /\ Len(overlayLog) = 3
    /\ overlayLog[1].e = "ImGui_ImplSDLRenderer3_Shutdown"
    /\ overlayLog[1].renderer = "Software"
    /\ overlayLog[3] = OverlayEvent("Renderer::Shutdown", "Software", TRUE)

====
